---- MODULE Spec2Model ----
(***************************************************************************)
(* Order-flow dialogue engine of the bookstore chatbot.                    *)
(*                                                                         *)
(*   src/session_manager.py   SessionManager, OrderFlowManager             *)
(*   src/chatbot.py           OptimizedChatbot.process_message and the     *)
(*                            order-flow handlers                          *)
(*   src/nlp_processor.py     EntityExtractor.extract_quantity / _phone /  *)
(*                            _address                                     *)
(*   src/database_manager.py  DatabaseManager.create_order                 *)
(*                                                                         *)
(* Text is a sequence of one-character strings, so that the regular        *)
(* expressions of the extractors are computed character by character; a    *)
(* character outside ASCII is written by its code point ("u00F3" is o      *)
(* with acute, "u0111" is d with stroke).                                  *)
(* Python's None is the record None for objects; an extractor that returns *)
(* None or a non-empty string returns the empty text for None (both are    *)
(* falsy and the callers only test truthiness).                            *)
(***************************************************************************)
EXTENDS Integers, Sequences, FiniteSets, TLC

(***************************************************************************)
(* Characters                                                              *)
(***************************************************************************)
DigitSeq == <<"0", "1", "2", "3", "4", "5", "6", "7", "8", "9">>
UpperSeq ==
    <<"A", "B", "C", "D", "E", "F", "G", "H", "I", "J", "K", "L", "M",
      "N", "O", "P", "Q", "R", "S", "T", "U", "V", "W", "X", "Y", "Z",
      "u00C1", "u00CA", "u0110">>
LowerSeq ==
    <<"a", "b", "c", "d", "e", "f", "g", "h", "i", "j", "k", "l", "m",
      "n", "o", "p", "q", "r", "s", "t", "u", "v", "w", "x", "y", "z",
      "u00E1", "u00EA", "u0111">>
Whitespace == {" ", "\t"}
\* the characters of the inputs that are neither \w nor \s
Punctuation == {",", ".", "-", "+", "?", "!"}

IsDigit(c) == \E i \in 1..Len(DigitSeq) : DigitSeq[i] = c
DigitVal(c) == (CHOOSE i \in 1..Len(DigitSeq) : DigitSeq[i] = c) - 1
\* \w : letters, digits, underscore
IsWordChar(c) == c \notin Whitespace /\ c \notin Punctuation
\* str.lower(), character by character
LowerChar(c) ==
    IF \E i \in 1..Len(UpperSeq) : UpperSeq[i] = c
    THEN LowerSeq[CHOOSE i \in 1..Len(UpperSeq) : UpperSeq[i] = c]
    ELSE c
Lower(t) == [i \in 1..Len(t) |-> LowerChar(t[i])]

Min(a, b) == IF a < b THEN a ELSE b

\* int() of a run of digits
RECURSIVE ToInt(_)
ToInt(ds) ==
    IF ds = <<>> THEN 0
    ELSE 10 * ToInt(SubSeq(ds, 1, Len(ds) - 1)) + DigitVal(ds[Len(ds)])

\* number of consecutive digits of t from position i on
RECURSIVE DigitRunLen(_, _)
DigitRunLen(t, i) ==
    IF i > Len(t) \/ ~IsDigit(t[i]) THEN 0 ELSE 1 + DigitRunLen(t, i + 1)

\* does k occur in t at position i
OccursAt(t, k, i) ==
    /\ i >= 1
    /\ i + Len(k) - 1 <= Len(t)
    /\ SubSeq(t, i, i + Len(k) - 1) = k
\* str.find from position from (1-based); 0 when there is none
Find(t, k, from) ==
    IF \E i \in from..Len(t) : OccursAt(t, k, i)
    THEN CHOOSE i \in from..Len(t) :
            OccursAt(t, k, i) /\ \A j \in from..(i - 1) : ~OccursAt(t, k, j)
    ELSE 0
\* the Python test  k in t
Contains(t, k) == Find(t, k, 1) # 0

\* str.strip()
Strip(t) ==
    LET keep == {i \in 1..Len(t) : t[i] \notin Whitespace}
    IN  IF keep = {} THEN <<>>
        ELSE SubSeq(t, CHOOSE i \in keep : \A j \in keep : i <= j,
                       CHOOSE i \in keep : \A j \in keep : i >= j)

(***************************************************************************)
(* EntityExtractor: quantity, phone number, address                        *)
(***************************************************************************)
\* re.search(r'\b(\d+)\b', text): the first maximal run of digits that has
\* no word character on either side
QuantityMatchAt(t, i) ==
    /\ IsDigit(t[i])
    /\ (i = 1 \/ ~IsWordChar(t[i - 1]))
    /\ LET j == i + DigitRunLen(t, i)
       IN  j > Len(t) \/ ~IsWordChar(t[j])

NoInt == [found |-> FALSE, value |-> 0]
extract_quantity(text) ==
    IF \E i \in 1..Len(text) : QuantityMatchAt(text, i)
    THEN LET i == CHOOSE k \in 1..Len(text) :
                    QuantityMatchAt(text, k)
                    /\ \A j \in 1..(k - 1) : ~QuantityMatchAt(text, j)
         IN  [found |-> TRUE,
              value |-> ToInt(SubSeq(text, i, i + DigitRunLen(text, i) - 1))]
    ELSE NoInt

\* re.search(prefix \d{lo,hi}, text), group 1: the leftmost match, greedy
PhoneMatchAt(t, prefix, lo, i) ==
    OccursAt(t, prefix, i) /\ DigitRunLen(t, i + Len(prefix)) >= lo
SearchPhone(t, prefix, lo, hi) ==
    IF \E i \in 1..Len(t) : PhoneMatchAt(t, prefix, lo, i)
    THEN LET i == CHOOSE k \in 1..Len(t) :
                    PhoneMatchAt(t, prefix, lo, k)
                    /\ \A j \in 1..(k - 1) : ~PhoneMatchAt(t, prefix, lo, j)
             n == Min(DigitRunLen(t, i + Len(prefix)), hi)
         IN  SubSeq(t, i, i + Len(prefix) + n - 1)
    ELSE <<>>

\* r'(\d{10,11})', r'(\+84\d{9,10})', r'(0\d{9,10})'
phone_patterns ==
    << [prefix |-> <<>>, lo |-> 10, hi |-> 11],
       [prefix |-> <<"+", "8", "4">>, lo |-> 9, hi |-> 10],
       [prefix |-> <<"0">>, lo |-> 9, hi |-> 10] >>

RECURSIVE PhoneFrom(_, _)
PhoneFrom(text, n) ==
    IF n > Len(phone_patterns) THEN <<>>
    ELSE LET p == phone_patterns[n]
             m == SearchPhone(text, p.prefix, p.lo, p.hi)
         IN  IF m # <<>> THEN m ELSE PhoneFrom(text, n + 1)
extract_phone_number(text) == PhoneFrom(text, 1)

\* re.sub(r'\d{9,11}', '', text)
RECURSIVE RemovePhones(_, _)
RemovePhones(t, i) ==
    IF i > Len(t) THEN <<>>
    ELSE LET n == DigitRunLen(t, i)
         IN  IF n >= 9 THEN RemovePhones(t, i + Min(n, 11))
             ELSE <<t[i]>> \o RemovePhones(t, i + 1)

\* re.sub(r'[^\w\s]', ' ', t)
PunctToSpace(t) ==
    [i \in 1..Len(t) |->
        IF ~IsWordChar(t[i]) /\ t[i] \notin Whitespace THEN " " ELSE t[i]]

address_keywords ==
    << <<"u0111", "u1ECB", "a", " ", "c", "h", "u1EC9">>,
       <<"a", "d", "d", "r", "e", "s", "s">>,
       <<"t", "u1EA1", "i">>,
       <<"u1EDF">>,
       <<"s", "u1ED1">>,
       <<"u0111", "u01B0", "u1EDD", "n", "g">>,
       <<"p", "h", "u1ED1">>,
       <<"q", "u", "u1EAD", "n">>,
       <<"h", "u", "y", "u1EC7", "n">>,
       <<"t", "u1EC9", "n", "h">>,
       <<"t", "h", "u00E0", "n", "h", " ", "p", "h", "u1ED1">> >>

\* text.split(keyword)[1] for a keyword that occurs in text
SplitSecond(t, k) ==
    LET a == Find(t, k, 1) + Len(k)
        b == Find(t, k, a)
    IN  IF b = 0 THEN SubSeq(t, a, Len(t)) ELSE SubSeq(t, a, b - 1)

RECURSIVE AddressFrom(_, _)
AddressFrom(twp, n) ==
    IF n > Len(address_keywords)
    THEN Strip(twp)
    ELSE LET k == address_keywords[n]
             address == IF Contains(Lower(twp), k)
                        THEN Strip(PunctToSpace(Strip(SplitSecond(Lower(twp), k))))
                        ELSE <<>>
         IN  IF address # <<>> THEN address ELSE AddressFrom(twp, n + 1)
extract_address(text) == AddressFrom(RemovePhones(text, 1), 1)

\* chatbot._handle_order_confirmation: any(word in user_input_lower ...)
AffirmativeTokens ==
    << <<"c", "u00F3">>,
       <<"y", "e", "s">>,
       <<"u0111", "u1ED3", "n", "g", " ", "u00FD">>,
       <<"o", "k">>,
       <<"x", "u00E1", "c", " ", "n", "h", "u1EAD", "n">> >>
NegativeTokens ==
    << <<"k", "h", "u00F4", "n", "g">>,
       <<"n", "o">>,
       <<"h", "u", "u1EF7">>,
       <<"h", "u1EE7", "y">>,
       <<"c", "a", "n", "c", "e", "l">> >>
AnyTokenIn(tokens, user_input) ==
    \E n \in 1..Len(tokens) : Contains(Lower(user_input), tokens[n])

(***************************************************************************)
(* Bounds and inputs                                                       *)
(***************************************************************************)
\* the clock advances at most MaxTicks times
MaxTicks == 1
\* copies of the first book in the store at the start
InitStock == 3
\* orders the store takes before the model stops committing
MaxOrders == 1

\* SessionManager.__init__: session_timeout, in seconds
session_timeout == 3600
\* the clock advances past the expiry of every session created before
TickSteps == {session_timeout + 1}

None == [none |-> TRUE]

SessionIds == {"s1"}
\* the session ids of the runs that address the SessionManager alone
AllSessionIds == {"s1", "s2"}
Books == {"b1", "b2"}
Price == [b \in Books |-> IF b = "b1" THEN 150000 ELSE 20000]
StockAtStart == [b \in Books |-> IF b = "b1" THEN InitStock ELSE 0]
\* book_data handed to start_order
BookData == {[book_id |-> b, price |-> Price[b]] : b \in Books}

U_three == <<"3">>
U_zero == <<"0">>
U_addr_kw ==
    <<"T", "u1EA1", "i", " ", "3", " ", "H", "u", "e", ",", " ",
      "0", "9", "8", "7", "6", "5", "4", "3", "2", "1">>
U_phone_only == <<"0", "0", "0", "0", "0", "0", "0", "0", "0", "3">>
U_yes == <<"c", "u00F3">>
U_no == <<"k", "h", "u00F4", "n", "g">>
\* the utterances a user sends; the first integer of each is small, so
\* that price * quantity stays within TLC's integers
Utterances == {U_three, U_zero, U_addr_kw, U_phone_only, U_yes, U_no}
\* the utterances of two callers at once
U_two == <<"2">>
RaceUtterances == {U_two, U_three}
\* utterances that hold an affirmative token and a negative token
U_khong_co == <<"K", "h", "u00F4", "n", "g", " ", "c", "u00F3">>
U_ok_huy == <<"o", "k", " ", "h", "u1EE7", "y">>
MixedUtterances == {U_khong_co, U_ok_huy}
AllUtterances == Utterances \cup RaceUtterances \cup MixedUtterances

\* the extractors and the token tests, tabulated over the utterances
ExtractedQuantity == [u \in AllUtterances |-> extract_quantity(u)]
ExtractedPhone == [u \in AllUtterances |-> extract_phone_number(u)]
ExtractedAddress == [u \in AllUtterances |-> extract_address(u)]
SaysYes == [u \in AllUtterances |-> AnyTokenIn(AffirmativeTokens, u)]
SaysNo == [u \in AllUtterances |-> AnyTokenIn(NegativeTokens, u)]

\* arguments of direct OrderFlowManager calls
QuantityArgs == {0, 3}
A_main == <<"3", " ", "h", "u", "e">>
P_main == <<"0", "9", "8", "7", "6", "5", "4", "3", "2", "1">>
AddressPhoneArgs == {<<A_main, P_main>>, <<(<<>>), P_main>>}
\* the arguments of the direct calls of set_order_state and set_order_data
SetStateArgs == {"waiting_quantity"}
DraftArg ==
    [book_id |-> "b1", price |-> 150000, quantity |-> 1, phone |-> <<>>,
     address |-> <<>>, total_price |-> 150000]
\* keyword arguments of a direct update_order_data call
UpdateArgs == {[quantity |-> 3], [price |-> 150000]}

\* what the understanding pipeline and the catalog lookups of a normal turn
\* come to: an ORDER intent whose title resolves to a book in stock, an
\* ORDER intent that fails (no title, no book, no stock), any other intent,
\* or an exception out of a handler.  search_books answers from a cache, so
\* the stock it reports is not tied to the store's.
NlpResults ==
    {[kind |-> "order", book |-> b] : b \in Books}
    \cup {[kind |-> k, book |-> "-"] : k \in {"order_error", "other", "raise"}}
\* the store during _process_order: it works, it fails inside create_order
\* (which returns False), or an exception reaches _process_order
StoreFaults == {"none", "error", "raise"}

(***************************************************************************)
(* OrderState                                                              *)
(***************************************************************************)
NONE == "none"
WAITING_QUANTITY == "waiting_quantity"
WAITING_ADDRESS_PHONE == "waiting_address_phone"
CONFIRMING_ORDER == "confirming_order"
PROCESSING_ORDER == "processing_order"
ORDER_COMPLETED == "order_completed"
ORDER_CANCELLED == "order_cancelled"
OrderState ==
    {NONE, WAITING_QUANTITY, WAITING_ADDRESS_PHONE, CONFIRMING_ORDER,
     PROCESSING_ORDER, ORDER_COMPLETED, ORDER_CANCELLED}

(***************************************************************************)
(* SessionManager.  S is the sessions dictionary, t the value of           *)
(* datetime.now() during the call.  The created_at / updated_at stamps,    *)
(* the user id and the session type are written but never read by the      *)
(* operations below and are left out of the record.                        *)
(***************************************************************************)
create_session(S, sid, t) ==
    [x \in DOMAIN S \cup {sid} |->
        IF x = sid
        THEN [order_state |-> NONE,
              order_data |-> None,
              expires_at |-> t + session_timeout]
        ELSE S[x]]

delete_session(S, sid) == [x \in DOMAIN S \ {sid} |-> S[x]]

\* get_session returns the session, or None after deleting an expired one
Expired(S, sid, t) == sid \in DOMAIN S /\ t > S[sid].expires_at
get_session(S, sid, t) ==
    IF sid \notin DOMAIN S \/ Expired(S, sid, t) THEN None ELSE S[sid]
\* the sessions dictionary after get_session
after_get_session(S, sid, t) ==
    IF Expired(S, sid, t) THEN delete_session(S, sid) ELSE S

\* update_session(session_id, **kw): no expiry check
update_session(S, sid, kw) ==
    IF sid \notin DOMAIN S THEN S
    ELSE [S EXCEPT ![sid] =
            [f \in DOMAIN @ |-> IF f \in DOMAIN kw THEN kw[f] ELSE @[f]]]

set_order_state(S, sid, state) == update_session(S, sid, [order_state |-> state])
set_order_data(S, sid, order_data) ==
    update_session(S, sid, [order_data |-> order_data])
get_order_state(S, sid, t) ==
    IF get_session(S, sid, t) = None THEN NONE
    ELSE get_session(S, sid, t).order_state
get_order_data(S, sid, t) ==
    IF get_session(S, sid, t) = None THEN None
    ELSE get_session(S, sid, t).order_data

\* clear_order_data, had it reset the order state and kept the draft
clear_order_data_keeps_draft(S, sid) ==
    update_session(S, sid, [order_state |-> NONE])
clear_order_data(S, sid) ==
    update_session(S, sid, [order_data |-> None, order_state |-> NONE])

\* update_order_data(session_id, **kw): [S: the sessions after, ok: the result]
update_order_data(S, sid, kw, t) ==
    LET session == get_session(S, sid, t)
        S1 == after_get_session(S, sid, t)
    IN  IF session = None \/ session.order_data = None
        THEN [S |-> S1, ok |-> FALSE]
        ELSE [S |-> [S1 EXCEPT ![sid].order_data =
                        [f \in DOMAIN @ |->
                            IF f \in DOMAIN kw THEN kw[f] ELSE @[f]]],
              ok |-> TRUE]
\* SessionManager.__init__: cleanup_interval, in seconds
cleanup_interval == 300
SecondsPerDay == 86400
\* timedelta.seconds of a difference of d >= 0 seconds: the days are left out
Seconds(d) == d % SecondsPerDay

\* cleanup_expired_sessions(): gives [S, last_cleanup]
cleanup_expired_sessions(S, lc, t) ==
    IF Seconds(t - lc) < cleanup_interval
    THEN [S |-> S, last_cleanup |-> lc]
    ELSE [S |-> [x \in {y \in DOMAIN S : ~(t > S[y].expires_at)} |-> S[x]],
          last_cleanup |-> t]

\* get_session_statistics, had it counted every session it holds
get_session_statistics_counts_all(S, lc, t) ==
    LET c == cleanup_expired_sessions(S, lc, t)
    IN  [S |-> c.S, last_cleanup |-> c.last_cleanup,
         total_sessions |-> Cardinality(DOMAIN c.S),
         active_sessions |-> Cardinality(DOMAIN c.S),
         order_sessions |->
             Cardinality({x \in DOMAIN c.S : c.S[x].order_state # NONE}),
         expired_sessions |-> 0]
\* get_session_statistics(): gives the sessions and last_cleanup after the
\* sweep, and the four counts
get_session_statistics(S, lc, t) ==
    LET c == cleanup_expired_sessions(S, lc, t)
        active == {x \in DOMAIN c.S : t <= c.S[x].expires_at}
    IN  [S |-> c.S, last_cleanup |-> c.last_cleanup,
         total_sessions |-> Cardinality(DOMAIN c.S),
         active_sessions |-> Cardinality(active),
         order_sessions |->
             Cardinality({x \in active : c.S[x].order_state # NONE}),
         expired_sessions |-> Cardinality(DOMAIN c.S) - Cardinality(active)]



\* the states a call of set_order_state / clear_order_data assigns
Assigned(S, sid, state) == IF sid \in DOMAIN S THEN <<state>> ELSE <<>>

(***************************************************************************)
(* OrderFlowManager.  Each step gives [S: the sessions after, status: the  *)
(* "status" of the result, set: the order states assigned on the way].     *)
(***************************************************************************)
start_order(S, sid, book_data) ==
    LET order_data == [book_id |-> book_data.book_id,
                       price |-> book_data.price,
                       quantity |-> 1,
                       phone |-> <<>>,
                       address |-> <<>>,
                       total_price |-> book_data.price]
        S1 == set_order_data(S, sid, order_data)
        S2 == set_order_state(S1, sid, WAITING_QUANTITY)
    IN  [S |-> S2, status |-> "success",
         set |-> Assigned(S1, sid, WAITING_QUANTITY)]

\* process_quantity, had it stored the quantity and kept the old total
process_quantity_no_recompute(S, sid, quantity, t) ==
    LET r1 == update_order_data(S, sid, [quantity |-> quantity], t)
    IN  IF ~r1.ok THEN [S |-> r1.S, status |-> "error", set |-> <<>>]
        ELSE [S |-> set_order_state(r1.S, sid, WAITING_ADDRESS_PHONE),
              status |-> "success",
              set |-> Assigned(r1.S, sid, WAITING_ADDRESS_PHONE)]
process_quantity(S, sid, quantity, t) ==
    LET r1 == update_order_data(S, sid, [quantity |-> quantity], t)
    IN  IF ~r1.ok THEN [S |-> r1.S, status |-> "error", set |-> <<>>]
        ELSE LET order_data == get_order_data(r1.S, sid, t)
                 S2 == after_get_session(r1.S, sid, t)
             IN  IF order_data # None
                 THEN LET total_price == order_data.price * quantity
                          r3 == update_order_data(
                                    S2, sid, [total_price |-> total_price], t)
                      IN  [S |-> set_order_state(
                                    r3.S, sid, WAITING_ADDRESS_PHONE),
                           status |-> "success",
                           set |-> Assigned(r3.S, sid, WAITING_ADDRESS_PHONE)]
                 ELSE [S |-> S2, status |-> "error", set |-> <<>>]

process_address_phone(S, sid, address, phone, t) ==
    LET r1 == update_order_data(
                  S, sid, [address |-> address, phone |-> phone], t)
    IN  IF ~r1.ok THEN [S |-> r1.S, status |-> "error", set |-> <<>>]
        ELSE LET S2 == set_order_state(r1.S, sid, CONFIRMING_ORDER)
                 order_data == get_order_data(S2, sid, t)
             IN  [S |-> after_get_session(S2, sid, t),
                  status |-> IF order_data # None THEN "success" ELSE "error",
                  set |-> Assigned(r1.S, sid, CONFIRMING_ORDER)]

\* confirm_order, had a refusal marked the order cancelled and kept the draft
confirm_order_marks_cancelled(S, sid, confirmed) ==
    IF confirmed
    THEN [S |-> set_order_state(S, sid, PROCESSING_ORDER),
          status |-> "success", action |-> "process_order",
          set |-> Assigned(S, sid, PROCESSING_ORDER)]
    ELSE [S |-> set_order_state(S, sid, ORDER_CANCELLED),
          status |-> "success", action |-> "order_cancelled",
          set |-> Assigned(S, sid, ORDER_CANCELLED)]
confirm_order(S, sid, confirmed) ==
    IF confirmed
    THEN [S |-> set_order_state(S, sid, PROCESSING_ORDER),
          status |-> "success", action |-> "process_order",
          set |-> Assigned(S, sid, PROCESSING_ORDER)]
    ELSE [S |-> clear_order_data(S, sid),
          status |-> "success", action |-> "order_cancelled",
          set |-> Assigned(S, sid, NONE)]

\* complete_order, had it ignored the result of the store
complete_order_always_completed(S, sid, success) ==
    [S |-> set_order_state(S, sid, ORDER_COMPLETED),
     status |-> "success", action |-> "order_completed",
     set |-> Assigned(S, sid, ORDER_COMPLETED)]
\* success is order_result.get("success")
complete_order(S, sid, success) ==
    IF success
    THEN [S |-> set_order_state(S, sid, ORDER_COMPLETED),
          status |-> "success", action |-> "order_completed",
          set |-> Assigned(S, sid, ORDER_COMPLETED)]
    ELSE [S |-> set_order_state(S, sid, ORDER_CANCELLED),
          status |-> "error", action |-> "order_failed",
          set |-> Assigned(S, sid, ORDER_CANCELLED)]

(***************************************************************************)
(* DatabaseManager.create_order.  The store is the stock of each book and  *)
(* the number of rows of the orders table; fault says whether the database *)
(* fails during the call.                                                  *)
(* Gives [ok: the result, stock, orders: the store after].                 *)
(***************************************************************************)
create_order(stock0, orders0, order, fault) ==
    IF fault # "none"
    THEN [ok |-> FALSE, stock |-> stock0, orders |-> orders0]
    ELSE IF order.book_id \notin DOMAIN stock0
            \/ stock0[order.book_id] < order.quantity
    THEN [ok |-> FALSE, stock |-> stock0, orders |-> orders0]
    ELSE [ok |-> TRUE,
          stock |-> [stock0 EXCEPT
                        ![order.book_id] = @ - order.quantity],
          orders |-> orders0 + 1]

(***************************************************************************)
(* OptimizedChatbot.  A handler gives                                      *)
(*   S, stock, orders  the sessions and the store after it,                *)
(*   intent            the "intent" of its response,                       *)
(*   set               the order states assigned, in order,                *)
(*   steps             the OrderFlowManager steps it invoked,              *)
(*   pipeline          whether the understanding pipeline ran,             *)
(*   create            "none", or how the store call of _process_order     *)
(*                     ended: "success", "false", "raise",                 *)
(*   raised            whether an exception left the handler,              *)
(*   history           the roles of the messages process_message added to  *)
(*                     the conversation history, in order,                 *)
(*   escaped           whether an exception left process_message.          *)
(***************************************************************************)
Out(S, stock0, orders0, intent, set, steps, pipeline, create, raised) ==
    [S |-> S, stock |-> stock0, orders |-> orders0, intent |-> intent,
     set |-> set, steps |-> steps, pipeline |-> pipeline,
     create |-> create, raised |-> raised, history |-> <<>>,
     escaped |-> FALSE]

\* _handle_quantity_input, had it passed on any quantity it extracted
handle_quantity_input_accepts_zero(S, stock0, orders0, sid, user_input, t) ==
    LET quantity == ExtractedQuantity[user_input]
    IN  IF quantity.found
        THEN LET result == process_quantity(S, sid, quantity.value, t)
             IN  Out(result.S, stock0, orders0, "order_quantity", result.set,
                     {"process_quantity"}, FALSE, "none", FALSE)
        ELSE Out(S, stock0, orders0, "order_quantity_error", <<>>, {},
                 FALSE, "none", FALSE)
handle_quantity_input(S, stock0, orders0, sid, user_input, t) ==
    LET quantity == ExtractedQuantity[user_input]
    IN  IF quantity.found /\ quantity.value > 0
        THEN LET result == process_quantity(S, sid, quantity.value, t)
             IN  Out(result.S, stock0, orders0, "order_quantity", result.set,
                     {"process_quantity"}, FALSE, "none", FALSE)
        ELSE Out(S, stock0, orders0, "order_quantity_error", <<>>, {},
                 FALSE, "none", FALSE)

handle_address_phone_input(S, stock0, orders0, sid, user_input, t) ==
    LET phone == ExtractedPhone[user_input]
        address == ExtractedAddress[user_input]
    IN  IF phone # <<>> /\ address # <<>>
        THEN LET result == process_address_phone(S, sid, address, phone, t)
             IN  Out(result.S, stock0, orders0, "order_address_phone",
                     result.set, {"process_address_phone"}, FALSE, "none",
                     FALSE)
        ELSE Out(S, stock0, orders0, "order_address_phone_error", <<>>, {},
                 FALSE, "none", FALSE)

\* _process_order: [S, stock, orders, success, create]
process_order(S, stock0, orders0, sid, t, fault) ==
    LET order_data == get_order_data(S, sid, t)
        S1 == after_get_session(S, sid, t)
    IN  IF order_data = None
        THEN [S |-> S1, stock |-> stock0, orders |-> orders0,
              success |-> FALSE, create |-> "none"]
        ELSE IF fault = "raise"
        THEN [S |-> S1, stock |-> stock0, orders |-> orders0,
              success |-> FALSE, create |-> "raise"]
        ELSE LET order == [book_id |-> order_data.book_id,
                           quantity |-> order_data.quantity]
                 r == create_order(stock0, orders0, order, fault)
             IN  [S |-> S1, stock |-> r.stock, orders |-> r.orders,
                  success |-> r.ok,
                  create |-> IF r.ok THEN "success" ELSE "false"]

\* _handle_order_confirmation, had it tested the negative tokens first
handle_order_confirmation_negative_first(S, stock0, orders0, sid, user_input, t, fault) ==
    IF SaysNo[user_input]
    THEN LET result == confirm_order(S, sid, FALSE)
         IN  Out(result.S, stock0, orders0, "order_cancelled", result.set,
                 {"confirm_order"}, FALSE, "none", FALSE)
    ELSE IF SaysYes[user_input]
    THEN LET result == confirm_order(S, sid, TRUE)
             order_result ==
                 process_order(result.S, stock0, orders0, sid, t, fault)
             final_result ==
                 complete_order(order_result.S, sid, order_result.success)
         IN  Out(final_result.S, order_result.stock, order_result.orders,
                 IF final_result.action = "order_completed"
                 THEN "order_completed" ELSE "order_failed",
                 result.set \o final_result.set,
                 {"confirm_order", "complete_order"}, FALSE,
                 order_result.create, FALSE)
    ELSE Out(S, stock0, orders0, "order_confirmation_error", <<>>, {},
             FALSE, "none", FALSE)
\* _handle_order_confirmation
handle_order_confirmation(S, stock0, orders0, sid, user_input, t, fault) ==
    IF SaysYes[user_input]
    THEN LET result == confirm_order(S, sid, TRUE)
         IN  IF result.action = "process_order"
             THEN LET order_result ==
                          process_order(result.S, stock0, orders0, sid, t, fault)
                      final_result ==
                          complete_order(order_result.S, sid,
                                         order_result.success)
                  IN  Out(final_result.S, order_result.stock,
                          order_result.orders,
                          IF final_result.action = "order_completed"
                          THEN "order_completed" ELSE "order_failed",
                          result.set \o final_result.set,
                          {"confirm_order", "complete_order"}, FALSE,
                          order_result.create, FALSE)
             ELSE Out(result.S, stock0, orders0, "order_confirmed",
                      result.set, {"confirm_order"}, FALSE, "none", FALSE)
    ELSE IF SaysNo[user_input]
    THEN LET result == confirm_order(S, sid, FALSE)
         IN  Out(result.S, stock0, orders0, "order_cancelled", result.set,
                 {"confirm_order"}, FALSE, "none", FALSE)
    ELSE Out(S, stock0, orders0, "order_confirmation_error", <<>>, {},
             FALSE, "none", FALSE)

\* _handle_normal_conversation with _handle_order_intent; every other
\* intent handler only reads the catalog
handle_normal_conversation(S, stock0, orders0, sid, nlp) ==
    IF nlp.kind = "raise"
    THEN Out(S, stock0, orders0, "error", <<>>, {}, TRUE, "none", TRUE)
    ELSE IF nlp.kind = "order"
    THEN LET book_data == [book_id |-> nlp.book, price |-> Price[nlp.book]]
             result == start_order(S, sid, book_data)
         IN  Out(result.S, stock0, orders0, "order_started", result.set,
                 {"start_order"}, TRUE, "none", FALSE)
    ELSE Out(S, stock0, orders0, nlp.kind, <<>>, {}, TRUE, "none", FALSE)

\* joins the reset of the else branch with the handler that follows it
AfterReset(S1, sid, o) ==
    [o EXCEPT !.set = Assigned(S1, sid, NONE) \o @]

\* _handle_order_flow, had it kept a finished order through the next turn
handle_order_flow_no_reset(S, stock0, orders0, sid, user_input, t, nlp, fault) ==
    LET order_state == get_order_state(S, sid, t)
        S1 == after_get_session(S, sid, t)
    IN  IF order_state = WAITING_QUANTITY
        THEN handle_quantity_input(S1, stock0, orders0, sid, user_input, t)
        ELSE IF order_state = WAITING_ADDRESS_PHONE
        THEN handle_address_phone_input(S1, stock0, orders0, sid, user_input, t)
        ELSE IF order_state = CONFIRMING_ORDER
        THEN handle_order_confirmation(
                 S1, stock0, orders0, sid, user_input, t, fault)
        ELSE handle_normal_conversation(S1, stock0, orders0, sid, nlp)
\* _handle_order_flow, had it taken a cancelled order back to confirmation
handle_order_flow_retries_cancelled(S, stock0, orders0, sid, user_input, t, nlp, fault) ==
    LET order_state == get_order_state(S, sid, t)
        S1 == after_get_session(S, sid, t)
    IN  IF order_state = WAITING_QUANTITY
        THEN handle_quantity_input(S1, stock0, orders0, sid, user_input, t)
        ELSE IF order_state = WAITING_ADDRESS_PHONE
        THEN handle_address_phone_input(S1, stock0, orders0, sid, user_input, t)
        ELSE IF order_state \in {CONFIRMING_ORDER, ORDER_CANCELLED}
        THEN handle_order_confirmation(
                 S1, stock0, orders0, sid, user_input, t, fault)
        ELSE AfterReset(S1, sid,
                 handle_normal_conversation(
                     clear_order_data(S1, sid), stock0, orders0, sid, nlp))
\* _handle_order_flow, had it classified an utterance that holds no quantity
handle_order_flow_classifies(S, stock0, orders0, sid, user_input, t, nlp, fault) ==
    LET order_state == get_order_state(S, sid, t)
        S1 == after_get_session(S, sid, t)
    IN  IF order_state = WAITING_QUANTITY
        THEN IF ExtractedQuantity[user_input].found
             THEN handle_quantity_input(S1, stock0, orders0, sid, user_input, t)
             ELSE handle_normal_conversation(S1, stock0, orders0, sid, nlp)
        ELSE IF order_state = WAITING_ADDRESS_PHONE
        THEN handle_address_phone_input(S1, stock0, orders0, sid, user_input, t)
        ELSE IF order_state = CONFIRMING_ORDER
        THEN handle_order_confirmation(
                 S1, stock0, orders0, sid, user_input, t, fault)
        ELSE AfterReset(S1, sid,
                 handle_normal_conversation(
                     clear_order_data(S1, sid), stock0, orders0, sid, nlp))
\* _handle_order_flow
handle_order_flow(S, stock0, orders0, sid, user_input, t, nlp, fault) ==
    LET order_state == get_order_state(S, sid, t)
        S1 == after_get_session(S, sid, t)
    IN  IF order_state = WAITING_QUANTITY
        THEN handle_quantity_input(S1, stock0, orders0, sid, user_input, t)
        ELSE IF order_state = WAITING_ADDRESS_PHONE
        THEN handle_address_phone_input(S1, stock0, orders0, sid, user_input, t)
        ELSE IF order_state = CONFIRMING_ORDER
        THEN handle_order_confirmation(
                 S1, stock0, orders0, sid, user_input, t, fault)
        ELSE AfterReset(S1, sid,
                 handle_normal_conversation(
                     clear_order_data(S1, sid), stock0, orders0, sid, nlp))

\* the body of process_message after the user message is added: the
\* dispatch on the order state
dispatch(S, stock0, orders0, sid, session, user_input, t, nlp, fault) ==
    IF session.order_state # NONE
    THEN handle_order_flow(S, stock0, orders0, sid, user_input, t, nlp, fault)
    ELSE handle_normal_conversation(S, stock0, orders0, sid, nlp)

\* process_message, had it opened a session under an id it does not hold
process_message_adopts_unknown(S, stock0, orders0, sid, user_input, t, nlp, fault) ==
    LET S1 == IF get_session(S, sid, t) = None
              THEN create_session(after_get_session(S, sid, t), sid, t)
              ELSE S
        response == dispatch(S1, stock0, orders0, sid, S1[sid], user_input,
                             t, nlp, fault)
    IN  [response EXCEPT
            !.history = IF response.raised
                        THEN <<"user">> ELSE <<"user", "assistant">>]
\* process_message without its except clause
process_message_lets_raise(S, stock0, orders0, sid, user_input, t, nlp, fault) ==
    LET session == get_session(S, sid, t)
        S1 == after_get_session(S, sid, t)
    IN  IF session = None
        THEN Out(S1, stock0, orders0, "invalid_session", <<>>, {}, FALSE,
                 "none", FALSE)
        ELSE LET response == dispatch(S1, stock0, orders0, sid, session,
                                      user_input, t, nlp, fault)
             IN  [response EXCEPT
                     !.history = IF response.raised
                                 THEN <<"user">>
                                 ELSE <<"user", "assistant">>,
                     !.escaped = response.raised]
\* process_message with a session id.  A missing or expired session is
\* answered with the error result "invalid_session" before anything is
\* recorded.  Otherwise the user message is added to the history, the
\* handler runs, and its reply is added; an exception out of the handler is
\* caught by the except clause, which returns the apology, intent "error",
\* so that nothing leaves process_message.
process_message(S, stock0, orders0, sid, user_input, t, nlp, fault) ==
    LET session == get_session(S, sid, t)
        S1 == after_get_session(S, sid, t)
    IN  IF session = None
        THEN Out(S1, stock0, orders0, "invalid_session", <<>>, {}, FALSE,
                 "none", FALSE)
        ELSE LET response == dispatch(S1, stock0, orders0, sid, session,
                                      user_input, t, nlp, fault)
             IN  [response EXCEPT
                     !.history = IF response.raised
                                 THEN <<"user">>
                                 ELSE <<"user", "assistant">>,
                     !.escaped = FALSE]

(***************************************************************************)
(* IntentClassifier.classify_intent.  The regular expressions are left     *)
(* out: the input is, for each intent, the raw confidences that            *)
(* _calculate_confidence gives the matches of its patterns, in the order   *)
(* the matches are found.  Confidences are counted in hundredths, so the   *)
(* priority bonus priority * 0.01 is the priority itself.                  *)
(***************************************************************************)
UNKNOWN == "unknown"
\* the keys of intent_patterns, in the order _build_intent_patterns gives
intent_patterns ==
    <<"order", "query", "search_by_title", "search_by_author",
      "search_by_category", "search_by_price", "recommend",
      "recommend_by_price", "list_categories", "check_stock", "greeting",
      "goodbye", "help">>
intent_priority ==
    [i \in {intent_patterns[k] : k \in DOMAIN intent_patterns} |->
        CASE i = "order" -> 10
          [] i = "search_by_price" -> 9
          [] i = "query" -> 8
          [] i = "recommend" -> 7
          [] i = "search_by_category" -> 6
          [] i = "search_by_author" -> 5
          [] i = "search_by_title" -> 4
          [] i = "recommend_by_price" -> 3
          [] i = "list_categories" -> 2
          [] i = "check_stock" -> 1
          [] OTHER -> 0]
\* sorted(..., key=priority, reverse=True): the sort is stable, so intents
\* of one priority keep the order of intent_patterns
SortRank(k) ==
    1 + Cardinality({j \in DOMAIN intent_patterns :
          \/ intent_priority[intent_patterns[j]]
                 > intent_priority[intent_patterns[k]]
          \/ /\ intent_priority[intent_patterns[j]]
                    = intent_priority[intent_patterns[k]]
             /\ j < k})
sorted_intents ==
    [r \in DOMAIN intent_patterns |->
        intent_patterns[CHOOSE k \in DOMAIN intent_patterns : SortRank(k) = r]]

\* the matches in the order the loops visit them
RECURSIVE MatchesFrom(_, _)
MatchesFrom(found, r) ==
    IF r > Len(sorted_intents) THEN <<>>
    ELSE LET intent_type == sorted_intents[r]
         IN  [k \in 1..Len(found[intent_type]) |->
                 [intent |-> intent_type,
                  confidence |-> found[intent_type][k]]]
             \o MatchesFrom(found, r + 1)

\* the loop over the matches, had a match of equal adjusted confidence
\* replaced the best
RECURSIVE BestOf_or_equal(_, _, _)
BestOf_or_equal(matches, n, best) ==
    IF n > Len(matches) THEN best
    ELSE LET adjusted_confidence ==
                 matches[n].confidence + intent_priority[matches[n].intent]
         IN  BestOf_or_equal(matches, n + 1,
                 IF adjusted_confidence >= best.confidence
                 THEN [intent |-> matches[n].intent,
                       confidence |-> adjusted_confidence]
                 ELSE best)
\* the loop over the matches: a match replaces the best when its adjusted
\* confidence is greater
RECURSIVE BestOf(_, _, _)
BestOf(matches, n, best) ==
    IF n > Len(matches) THEN best
    ELSE LET adjusted_confidence ==
                 matches[n].confidence + intent_priority[matches[n].intent]
         IN  BestOf(matches, n + 1,
                 IF adjusted_confidence > best.confidence
                 THEN [intent |-> matches[n].intent,
                       confidence |-> adjusted_confidence]
                 ELSE best)

\* gives the intent and the confidence of the IntentResult
classify_intent(found) ==
    BestOf(MatchesFrom(found, 1), 1, [intent |-> UNKNOWN, confidence |-> 0])

(***************************************************************************)
(* SentimentAnalyzer                                                       *)
(***************************************************************************)
POSITIVE == "positive"
NEGATIVE == "negative"
NEUTRAL == "neutral"
FRUSTRATED == "frustrated"
EXCITED == "excited"

POSITIVE_KEYWORDS ==
    {<<"t", "u1ED1", "t">>, <<"h", "a", "y">>,
     <<"t", "u", "y", "u1EC7", "t">>,
     <<"x", "u", "u1EA5", "t", " ", "s", "u1EAF", "c">>,
     <<"u0111", "u1EB9", "p">>, <<"t", "h", "u00ED", "c", "h">>,
     <<"y", "u00EA", "u">>,
     <<"h", "u00E0", "i", " ", "l", "u00F2", "n", "g">>, <<"v", "u", "i">>,
     <<"h", "u1EA1", "n", "h", " ", "p", "h", "u00FA", "c">>,
     <<"t", "h", "u00FA", " ", "v", "u1ECB">>,
     <<"h", "u1EA5", "p", " ", "d", "u1EAB", "n">>,
     <<"c", "u", "u1ED1", "n", " ", "h", "u00FA", "t">>,
     <<"u1EA5", "n", " ", "t", "u01B0", "u1EE3", "n", "g">>,
     <<"c", "u1EA3", "m", " ", "u01A1", "n">>,
     <<"t", "h", "a", "n", "k", "s">>,
     <<"t", "h", "a", "n", "k", " ", "y", "o", "u">>,
     <<"c", "u1EA3", "m", " ", "u01A1", "n", " ", "b", "u1EA1", "n">>,
     <<"t", "u", "y", "u1EC7", "t", " ", "v", "u1EDD", "i">>,
     <<"h", "o", "u00E0", "n", " ", "h", "u1EA3", "o">>,
     <<"c", "h", "u1EA5", "t", " ", "l", "u01B0", "u1EE3", "n", "g">>,
     <<"u0111", "u00E1", "n", "g", " ", "g", "i", "u00E1">>,
     <<"n", "u00EA", "n", " ", "m", "u", "a">>,
     <<"k", "h", "u", "y", "u00EA", "n">>}

NEGATIVE_KEYWORDS ==
    {<<"t", "u1EC7">>, <<"x", "u1EA5", "u">>,
     <<"k", "h", "u00F4", "n", "g", " ", "t", "h", "u00ED", "c", "h">>,
     <<"g", "h", "u00E9", "t">>, <<"c", "h", "u00E1", "n">>,
     <<"n", "h", "u00E0", "m", " ", "c", "h", "u00E1", "n">>,
     <<"t", "h", "u1EA5", "t", " ", "v", "u1ECD", "n", "g">>,
     <<"b", "u", "u1ED3", "n">>,
     <<"t", "u1EE9", "c", " ", "g", "i", "u1EAD", "n">>,
     <<"k", "h", "u00F3", " ", "c", "h", "u1ECB", "u">>,
     <<"p", "h", "i", "u1EC1", "n">>,
     <<"k", "h", "u00F4", "n", "g", " ", "h", "u00E0", "i", " ", "l", "u00F2", "n", "g">>,
     <<"u0111", "u1EAF", "t">>, <<"m", "u1EAF", "c">>,
     <<"k", "h", "u00F4", "n", "g", " ", "u0111", "u00E1", "n", "g">>,
     <<"l", "u1EEB", "a", " ", "u0111", "u1EA3", "o">>,
     <<"g", "i", "u1EA3">>,
     <<"k", "u00E9", "m", " ", "c", "h", "u1EA5", "t", " ", "l", "u01B0", "u1EE3", "n", "g">>,
     <<"h", "u1EBF", "t", " ", "h", "u00E0", "n", "g">>,
     <<"k", "h", "u00F4", "n", "g", " ", "c", "u00F3">>,
     <<"t", "h", "u1EA5", "t", " ", "b", "u1EA1", "i">>,
     <<"l", "u1ED7", "i">>, <<"s", "a", "i">>}

FRUSTRATED_KEYWORDS ==
    {<<"t", "u1EA1", "i", " ", "s", "a", "o">>,
     <<"s", "a", "o", " ", "l", "u1EA1", "i">>,
     <<"k", "h", "u00F4", "n", "g", " ", "h", "i", "u1EC3", "u">>,
     <<"k", "h", "u00F3", " ", "h", "i", "u1EC3", "u">>,
     <<"p", "h", "u1EE9", "c", " ", "t", "u1EA1", "p">>,
     <<"r", "u1ED1", "i", " ", "r", "u1EAF", "m">>,
     <<"k", "h", "u00F4", "n", "g", " ", "b", "i", "u1EBF", "t">>,
     <<"l", "u00E0", "m", " ", "s", "a", "o">>,
     <<"n", "h", "u01B0", " ", "t", "h", "u1EBF", " ", "n", "u00E0", "o">>,
     <<"h", "e", "l", "p">>, <<"g", "i", "u00FA", "p">>,
     <<"h", "u01B0", "u1EDB", "n", "g", " ", "d", "u1EAB", "n">>,
     <<"k", "h", "u00F4", "n", "g", " ", "t", "u00EC", "m", " ", "t", "h", "u1EA5", "y">>,
     <<"k", "h", "u00F4", "n", "g", " ", "c", "u00F3">>}

EXCITED_KEYWORDS ==
    {<<"w", "o", "w">>,
     <<"t", "u", "y", "u1EC7", "t", " ", "q", "u", "u00E1">>,
     <<"a", "m", "a", "z", "i", "n", "g">>,
     <<"i", "n", "c", "r", "e", "d", "i", "b", "l", "e">>,
     <<"f", "a", "n", "t", "a", "s", "t", "i", "c">>,
     <<"t", "u", "y", "u1EC7", "t", " ", "v", "u1EDD", "i">>,
     <<"q", "u", "u00E1", " ", "h", "a", "y">>,
     <<"q", "u", "u00E1", " ", "t", "u1ED1", "t">>,
     <<"t", "h", "u00ED", "c", "h", " ", "q", "u", "u00E1">>,
     <<"m", "u00EA", " ", "q", "u", "u00E1">>,
     <<"u0111", "u1EB7", "t", " ", "n", "g", "a", "y">>,
     <<"m", "u", "a", " ", "n", "g", "a", "y">>,
     <<"c", "u1EA7", "n", " ", "n", "g", "a", "y">>, <<"g", "u1EA5", "p">>,
     <<"u", "r", "g", "e", "n", "t">>}

\* str.split(): the maximal runs of characters that are not whitespace, in
\* their order
RECURSIVE split(_)
split(t) ==
    LET keep == {i \in 1..Len(t) : t[i] \notin Whitespace}
    IN  IF keep = {} THEN <<>>
        ELSE LET i == CHOOSE k \in keep : \A j \in keep : k <= j
                 stops == {k \in i..Len(t) : t[k] \in Whitespace}
                 e == IF stops = {} THEN Len(t) + 1
                      ELSE CHOOSE k \in stops : \A j \in stops : k <= j
             IN  <<SubSeq(t, i, e - 1)>> \o split(SubSeq(t, e, Len(t)))

\* len(words.intersection(keywords)) for words = set(text.lower().split())
intersection_count(text, keywords) ==
    LET text_lower == Lower(text)
        listed == split(text_lower)
        words == {listed[i] : i \in 1..Len(listed)}
    IN  Cardinality(words \cap keywords)

\* a variant that gives EXCITED only when excited outnumbers positive
analyze_sentiment_strictly_excited(text) ==
    IF text = <<>> THEN NEUTRAL
    ELSE LET positive_count == intersection_count(text, POSITIVE_KEYWORDS)
             negative_count == intersection_count(text, NEGATIVE_KEYWORDS)
             frustrated_count == intersection_count(text, FRUSTRATED_KEYWORDS)
             excited_count == intersection_count(text, EXCITED_KEYWORDS)
         IN  IF excited_count > 0 /\ excited_count > positive_count
             THEN EXCITED
             ELSE IF frustrated_count > 0 /\ frustrated_count >= negative_count
             THEN FRUSTRATED
             ELSE IF positive_count > negative_count THEN POSITIVE
             ELSE IF negative_count > positive_count THEN NEGATIVE
             ELSE NEUTRAL

analyze_sentiment(text) ==
    IF text = <<>> THEN NEUTRAL
    ELSE LET positive_count == intersection_count(text, POSITIVE_KEYWORDS)
             negative_count == intersection_count(text, NEGATIVE_KEYWORDS)
             frustrated_count == intersection_count(text, FRUSTRATED_KEYWORDS)
             excited_count == intersection_count(text, EXCITED_KEYWORDS)
         IN  IF excited_count > 0 /\ excited_count >= positive_count
             THEN EXCITED
             ELSE IF frustrated_count > 0 /\ frustrated_count >= negative_count
             THEN FRUSTRATED
             ELSE IF positive_count > negative_count THEN POSITIVE
             ELSE IF negative_count > positive_count THEN NEGATIVE
             ELSE NEUTRAL

(***************************************************************************)
(* IntentClassifier._extract_price_parameters                              *)
(*                                                                         *)
(* A regular expression is a sequence of elements: a literal, a captured   *)
(* alternative of literals, a run of whitespace of a least length, or a    *)
(* captured run of digits.  A run is taken whole: in these expressions     *)
(* what follows a run never begins with a character of the run, so that a  *)
(* shorter run cannot match where the whole one does not.                  *)
(* An optional price is the set of at most one number: {} is None.         *)
(***************************************************************************)
Lit(s) == [k |-> "lit", alts |-> <<s>>, min |-> 0]
Group(alts) == [k |-> "group", alts |-> alts, min |-> 0]
Spaces(min) == [k |-> "spaces", alts |-> <<>>, min |-> min]
Digits == [k |-> "digits", alts |-> <<>>, min |-> 1]

\* number of consecutive whitespace characters of t from position i on
RECURSIVE SpaceRunLen(_, _)
SpaceRunLen(t, i) ==
    IF i > Len(t) \/ t[i] \notin Whitespace THEN 0
    ELSE 1 + SpaceRunLen(t, i + 1)
\* does k occur in t at position i, whatever the case (re.IGNORECASE)
OccursAtAnyCase(t, k, i) == OccursAt(Lower(t), Lower(k), i)

\* the match of the elements n.. of a pattern at position i of t, with the
\* groups captured so far
RECURSIVE MatchAt(_, _, _, _, _)
MatchAt(pat, n, t, i, groups) ==
    IF n > Len(pat) THEN [ok |-> TRUE, groups |-> groups]
    ELSE LET e == pat[n]
             fail == [ok |-> FALSE, groups |-> <<>>]
         IN  CASE e.k = "lit" ->
                    IF OccursAtAnyCase(t, e.alts[1], i)
                    THEN MatchAt(pat, n + 1, t, i + Len(e.alts[1]), groups)
                    ELSE fail
               [] e.k = "group" ->
                    LET takes(a) ==
                            /\ OccursAtAnyCase(t, e.alts[a], i)
                            /\ MatchAt(pat, n + 1, t, i + Len(e.alts[a]),
                                       groups).ok
                        fit == {a \in 1..Len(e.alts) : takes(a)}
                    IN  IF fit = {} THEN fail
                        ELSE LET a == CHOOSE x \in fit : \A y \in fit : x <= y
                                 w == Len(e.alts[a])
                             IN  MatchAt(pat, n + 1, t, i + w,
                                         Append(groups,
                                                SubSeq(t, i, i + w - 1)))
               [] e.k = "spaces" ->
                    LET r == SpaceRunLen(t, i)
                    IN  IF r >= e.min
                        THEN MatchAt(pat, n + 1, t, i + r, groups)
                        ELSE fail
               [] OTHER ->
                    LET r == DigitRunLen(t, i)
                    IN  IF r >= e.min
                        THEN MatchAt(pat, n + 1, t, i + r,
                                     Append(groups, SubSeq(t, i, i + r - 1)))
                        ELSE fail
\* re.search(pat, t, re.IGNORECASE): the match at the first position that
\* has one
search(pat, t) ==
    LET at == {i \in 1..(Len(t) + 1) : MatchAt(pat, 1, t, i, <<>>).ok}
    IN  IF at = {} THEN [ok |-> FALSE, groups |-> <<>>]
        ELSE MatchAt(pat, 1, t, CHOOSE i \in at : \A j \in at : i <= j, <<>>)

K_gia == <<"g", "i", "u00E1">>
K_tu == <<"t", "u1EEB">>
K_den == <<"u0111", "u1EBF", "n">>
K_duoi == <<"d", "u01B0", "u1EDB", "i">>
K_tren == <<"t", "r", "u00EA", "n">>
K_cao_hon == <<"c", "a", "o", " ", "h", "u01A1", "n">>
K_thap_hon == <<"t", "h", "u1EA5", "p", " ", "h", "u01A1", "n">>
K_VND == <<"V", "N", "D">>

\* Pattern 1 .. Pattern 6, in the order in which they are tried
Pattern1 ==
    <<Lit(K_gia), Spaces(1), Lit(K_tu), Spaces(0), Digits, Spaces(0),
      Lit(K_den), Spaces(0), Digits>>
Pattern2 ==
    <<Lit(K_tu), Spaces(0), Digits, Spaces(0), Lit(K_den), Spaces(0), Digits>>
Pattern3 ==
    <<Lit(K_gia), Spaces(1),
      Group(<<K_duoi, K_tu, K_tren, K_cao_hon, K_thap_hon>>), Spaces(0),
      Digits>>
Pattern4 ==
    <<Group(<<K_duoi, K_tu, K_tren>>), Spaces(0), Digits, Spaces(0),
      Lit(K_VND)>>
Pattern5 == <<Group(<<K_tren, K_cao_hon>>), Spaces(0), Digits>>
Pattern6 == <<Group(<<K_duoi, K_thap_hon>>), Spaces(0), Digits>>

\* params, the dictionary, as the set of its items
price_range(min_price, max_price) ==
    {<<"price_range", <<min_price, max_price>>>>}
\* the range of a one-sided match: keyword, then number
OneSided(match, below, above) ==
    LET keyword == Lower(match.groups[1])
        number == ToInt(match.groups[2])
    IN  IF keyword \in below THEN price_range({}, {number})
        ELSE IF keyword \in above THEN price_range({number}, {})
        ELSE {}
TwoSided(match) ==
    price_range({ToInt(match.groups[1])}, {ToInt(match.groups[2])})

\* a variant that tries Pattern 6 before Pattern 5
extract_price_parameters_below_first(text) ==
    IF search(Pattern1, text).ok THEN TwoSided(search(Pattern1, text))
    ELSE IF search(Pattern2, text).ok THEN TwoSided(search(Pattern2, text))
    ELSE IF search(Pattern3, text).ok
    THEN OneSided(search(Pattern3, text), {K_duoi, K_thap_hon},
                  {K_tu, K_tren, K_cao_hon})
    ELSE IF search(Pattern4, text).ok
    THEN OneSided(search(Pattern4, text), {K_duoi}, {K_tu, K_tren})
    ELSE IF search(Pattern6, text).ok
    THEN price_range({}, {ToInt(search(Pattern6, text).groups[2])})
    ELSE IF search(Pattern5, text).ok
    THEN price_range({ToInt(search(Pattern5, text).groups[2])}, {})
    ELSE {}

extract_price_parameters(text) ==
    IF search(Pattern1, text).ok THEN TwoSided(search(Pattern1, text))
    ELSE IF search(Pattern2, text).ok THEN TwoSided(search(Pattern2, text))
    ELSE IF search(Pattern3, text).ok
    THEN OneSided(search(Pattern3, text), {K_duoi, K_thap_hon},
                  {K_tu, K_tren, K_cao_hon})
    ELSE IF search(Pattern4, text).ok
    THEN OneSided(search(Pattern4, text), {K_duoi}, {K_tu, K_tren})
    ELSE IF search(Pattern5, text).ok
    THEN price_range({ToInt(search(Pattern5, text).groups[2])}, {})
    ELSE IF search(Pattern6, text).ok
    THEN price_range({}, {ToInt(search(Pattern6, text).groups[2])})
    ELSE {}
(***************************************************************************)
(* VietnameseTextProcessor.normalize_text                                  *)
(***************************************************************************)
\* re.sub(r'[^\w\s...]', ' ', t): the letters listed in the class are word
\* characters already
BlankPunctuation(t) ==
    [i \in 1..Len(t) |->
        IF ~IsWordChar(t[i]) /\ t[i] \notin Whitespace THEN " " ELSE t[i]]
\* re.sub(r'\s+', ' ', t)
RECURSIVE CollapseSpaces(_)
CollapseSpaces(t) ==
    IF t = <<>> THEN <<>>
    ELSE IF t[1] \in Whitespace
    THEN <<" ">> \o CollapseSpaces(SubSeq(t, SpaceRunLen(t, 1) + 1, Len(t)))
    ELSE <<t[1]>> \o CollapseSpaces(Tail(t))

\* a variant that leaves out the last strip()
normalize_text_keeps_edges(text) ==
    IF text = <<>> THEN <<>>
    ELSE CollapseSpaces(BlankPunctuation(Strip(Lower(text))))

normalize_text(text) ==
    IF text = <<>> THEN <<>>
    ELSE Strip(CollapseSpaces(BlankPunctuation(Strip(Lower(text)))))
(***************************************************************************)
(* EntityExtractor: the extractors with fuzzy matching                     *)
(*                                                                         *)
(* The choices are the values of the catalogue, numbered in its order.     *)
(* What the text holds is given by its outcome: exact is the set of        *)
(* choices that occur in the text, scores gives for each choice the score  *)
(* of fuzz.partial_ratio against the text.  The extractors give the set of *)
(* at most one choice: {} is None.                                         *)
(***************************************************************************)
Choices == 1..2
\* the books by descending length of title (list.sort is stable)
ByTitleLength == <<2, 1>>
\* process.extractOne: the choice of the highest score, the first of them
extractOne(scores) ==
    CHOOSE c \in Choices :
        /\ \A d \in Choices : scores[d] <= scores[c]
        /\ \A d \in Choices : scores[d] = scores[c] => c <= d

extract_book_title(exact, scores, threshold) ==
    IF exact # {}
    THEN {ByTitleLength[CHOOSE n \in 1..Len(ByTitleLength) :
              /\ ByTitleLength[n] \in exact
              /\ \A k \in 1..(n - 1) : ByTitleLength[k] \notin exact]}
    ELSE LET best_match == extractOne(scores)
         IN  IF scores[best_match] >= 60 THEN {best_match} ELSE {}

extract_author_fuzzy(exact, scores, threshold) ==
    IF exact # {} THEN {CHOOSE c \in exact : \A d \in exact : c <= d}
    ELSE LET best_match == extractOne(scores)
         IN  IF scores[best_match] >= threshold THEN {best_match} ELSE {}

extract_category_fuzzy(exact, scores, threshold) ==
    IF exact # {} THEN {CHOOSE c \in exact : \A d \in exact : c <= d}
    ELSE LET best_match == extractOne(scores)
         IN  IF scores[best_match] >= threshold THEN {best_match} ELSE {}
(***************************************************************************)
(* ContextManager and NLProcessor._improve_intent_with_context             *)
(*                                                                         *)
(* An optional value is the set of at most one value: {} is None.  An      *)
(* IntentResult is the record of its intent, its confidence in hundredths, *)
(* its parameters category, author and price_range (optional each), its    *)
(* original text and its optional sentiment.  user_preferences is the      *)
(* three fields of the context that hold its keys; a key that is absent    *)
(* and a key with an empty list read the same everywhere.  A suggestion is *)
(* its fixed text, with the preferred value that is formatted into it.     *)
(***************************************************************************)
ORDER == "order"
QUERY == "query"
SEARCH_BY_AUTHOR == "search_by_author"
SEARCH_BY_CATEGORY == "search_by_category"
SEARCH_BY_PRICE == "search_by_price"
GREETING == "greeting"

history_maxlen == 10
sentiment_maxlen == 5
suggestions_max == 5

\* the tail of at most n elements of a sequence: s[-n:], deque(maxlen=n)
LastOf(s, n) == IF Len(s) <= n THEN s ELSE SubSeq(s, Len(s) - n + 1, Len(s))
\* the head of at most n elements of a sequence: s[:n]
FirstOf(s, n) == IF Len(s) <= n THEN s ELSE SubSeq(s, 1, n)
InSeq(x, s) == \E i \in 1..Len(s) : s[i] = x

\* ContextManager.get_context: the context of a session, created at its
\* first reference
NewContext ==
    [conversation_history |-> <<>>, preferred_categories |-> <<>>,
     preferred_authors |-> <<>>, preferred_price_range |-> {},
     current_topic |-> {}, last_intent |-> {},
     user_sentiment_history |-> <<>>]
get_context(contexts, session_id) ==
    IF session_id \in DOMAIN contexts THEN contexts
    ELSE [x \in DOMAIN contexts \cup {session_id} |->
             IF x = session_id THEN NewContext ELSE contexts[x]]

\* a variant that records a category each time it is searched
update_user_preferences_repeats(context, intent_result) ==
    LET p == intent_result.parameters
    IN  IF intent_result.intent = SEARCH_BY_CATEGORY /\ p.category # {}
        THEN [context EXCEPT !.preferred_categories =
                 Append(@, CHOOSE c \in p.category : TRUE)]
        ELSE IF intent_result.intent = SEARCH_BY_AUTHOR /\ p.author # {}
        THEN LET author == CHOOSE a \in p.author : TRUE
             IN  IF InSeq(author, context.preferred_authors) THEN context
                 ELSE [context EXCEPT !.preferred_authors = Append(@, author)]
        ELSE IF intent_result.intent = SEARCH_BY_PRICE /\ p.price_range # {}
        THEN [context EXCEPT !.preferred_price_range = p.price_range]
        ELSE context
\* _update_user_preferences
update_user_preferences(context, intent_result) ==
    LET p == intent_result.parameters
    IN  IF intent_result.intent = SEARCH_BY_CATEGORY /\ p.category # {}
        THEN LET category == CHOOSE c \in p.category : TRUE
             IN  IF InSeq(category, context.preferred_categories)
                 THEN context
                 ELSE [context EXCEPT
                          !.preferred_categories = Append(@, category)]
        ELSE IF intent_result.intent = SEARCH_BY_AUTHOR /\ p.author # {}
        THEN LET author == CHOOSE a \in p.author : TRUE
             IN  IF InSeq(author, context.preferred_authors) THEN context
                 ELSE [context EXCEPT !.preferred_authors = Append(@, author)]
        ELSE IF intent_result.intent = SEARCH_BY_PRICE /\ p.price_range # {}
        THEN [context EXCEPT !.preferred_price_range = p.price_range]
        ELSE context

\* a variant whose history keeps the first turns instead of the last
update_context_keeps_oldest(context, user_input, intent_result, t) ==
    LET entry == [user_input |-> user_input,
                  intent |-> intent_result.intent,
                  sentiment |-> intent_result.sentiment, timestamp |-> t]
        p == intent_result.parameters
        c1 == [context EXCEPT
                  !.conversation_history =
                      FirstOf(Append(@, entry), history_maxlen),
                  !.last_intent = {intent_result.intent},
                  !.user_sentiment_history =
                      IF intent_result.sentiment = {} THEN @
                      ELSE LastOf(Append(@, CHOOSE s \in
                                      intent_result.sentiment : TRUE),
                                  sentiment_maxlen),
                  !.current_topic =
                      IF intent_result.intent
                            \in {SEARCH_BY_CATEGORY, SEARCH_BY_AUTHOR}
                      THEN IF p.category # {} THEN p.category ELSE p.author
                      ELSE @]
    IN  update_user_preferences(c1, intent_result)
\* update_context on the context that get_context gives; t is the time of
\* the call
update_context(context, user_input, intent_result, t) ==
    LET entry == [user_input |-> user_input,
                  intent |-> intent_result.intent,
                  sentiment |-> intent_result.sentiment, timestamp |-> t]
        p == intent_result.parameters
        c1 == [context EXCEPT
                  !.conversation_history =
                      LastOf(Append(@, entry), history_maxlen),
                  !.last_intent = {intent_result.intent},
                  !.user_sentiment_history =
                      IF intent_result.sentiment = {} THEN @
                      ELSE LastOf(Append(@, CHOOSE s \in
                                      intent_result.sentiment : TRUE),
                                  sentiment_maxlen),
                  !.current_topic =
                      IF intent_result.intent
                            \in {SEARCH_BY_CATEGORY, SEARCH_BY_AUTHOR}
                      THEN IF p.category # {} THEN p.category ELSE p.author
                      ELSE @]
    IN  update_user_preferences(c1, intent_result)

\* the suggestions of get_smart_suggestions
Suggest(text, value) == [text |-> text, value |-> value]
ForIntent(current_intent) ==
    IF current_intent = SEARCH_BY_CATEGORY
    THEN <<Suggest("Goi y sach hay", "-"), Suggest("Gia duoi 100000", "-")>>
    ELSE IF current_intent = SEARCH_BY_AUTHOR
    THEN <<Suggest("The loai Fiction", "-"), Suggest("Sach ban chay", "-")>>
    ELSE IF current_intent = QUERY
    THEN <<Suggest("Dat mua sach nay", "-"), Suggest("Sach tuong tu", "-")>>
    ELSE <<>>
ForSentiment(history) ==
    IF history = <<>> THEN <<>>
    ELSE LET last_sentiment == history[Len(history)]
         IN  IF last_sentiment = FRUSTRATED
             THEN <<Suggest("Huong dan su dung", "-"),
                    Suggest("Lien he ho tro", "-")>>
             ELSE IF last_sentiment = EXCITED
             THEN <<Suggest("Dat mua ngay", "-"),
                    Suggest("Sach tuong tu", "-")>>
             ELSE <<>>
ForPreferred(text, preferred) ==
    LET first == FirstOf(preferred, 2)
    IN  [i \in 1..Len(first) |-> Suggest(text, first[i])]
\* a variant that returns every suggestion it composed
get_smart_suggestions_uncut(context, current_intent) ==
    ForPreferred("Sach ve", context.preferred_categories)
        \o ForPreferred("Sach cua", context.preferred_authors)
        \o ForIntent(current_intent)
        \o ForSentiment(context.user_sentiment_history)
get_smart_suggestions(context, current_intent) ==
    FirstOf(ForPreferred("Sach ve", context.preferred_categories)
                \o ForPreferred("Sach cua", context.preferred_authors)
                \o ForIntent(current_intent)
                \o ForSentiment(context.user_sentiment_history),
            suggestions_max)

W_co == <<"c", "u00F3">>
W_dong_y == <<"u0111", "u1ED3", "n", "g", " ", "u00FD">>
W_ok == <<"o", "k">>
W_khong == <<"k", "h", "u00F4", "n", "g">>
W_huy == <<"h", "u1EE7", "y">>
W_cancel == <<"c", "a", "n", "c", "e", "l">>

\* any(word in original_text.lower() for word in words)
AnyWordIn(words, original_text) ==
    \E word \in words : Contains(Lower(original_text), word)
\* a variant that lets the context decide whatever the confidence
improve_intent_with_context_always(intent_result, context) ==
    IF context.last_intent # {}
    THEN IF context.last_intent = {ORDER}
         THEN IF AnyWordIn({W_co, W_dong_y, W_ok}, intent_result.original_text)
                 \/ AnyWordIn({W_khong, W_huy, W_cancel},
                              intent_result.original_text)
              THEN [intent_result EXCEPT !.intent = ORDER, !.confidence = 90]
              ELSE intent_result
         ELSE IF context.last_intent = {SEARCH_BY_CATEGORY}
                 /\ context.current_topic # {}
         THEN [intent_result EXCEPT
                  !.parameters.category = context.current_topic,
                  !.confidence = Min(100, @ + 20)]
         ELSE intent_result
    ELSE intent_result
\* _improve_intent_with_context
improve_intent_with_context(intent_result, context) ==
    IF intent_result.confidence < 70 /\ context.last_intent # {}
    THEN IF context.last_intent = {ORDER}
         THEN IF AnyWordIn({W_co, W_dong_y, W_ok}, intent_result.original_text)
                 \/ AnyWordIn({W_khong, W_huy, W_cancel},
                              intent_result.original_text)
              THEN [intent_result EXCEPT !.intent = ORDER, !.confidence = 90]
              ELSE intent_result
         ELSE IF context.last_intent = {SEARCH_BY_CATEGORY}
                 /\ context.current_topic # {}
         THEN [intent_result EXCEPT
                  !.parameters.category = context.current_topic,
                  !.confidence = Min(100, @ + 20)]
         ELSE intent_result
    ELSE intent_result
(***************************************************************************)
(* SessionManager.add_message_to_history, on the conversation_history of   *)
(* a session that is held.  A message is its role and the time it was      *)
(* added; its content and metadata are written and never read here.        *)
(***************************************************************************)
history_limit == 50
\* a variant without the limit
add_message_to_history_unlimited(conversation_history, role, t) ==
    Append(conversation_history, [role |-> role, timestamp |-> t])
add_message_to_history(conversation_history, role, t) ==
    LET added == Append(conversation_history,
                        [role |-> role, timestamp |-> t])
    IN  IF Len(added) > history_limit
        THEN SubSeq(added, Len(added) - history_limit + 1, Len(added))
        ELSE added
(***************************************************************************)
(* State                                                                   *)
(*   sessions  SessionManager.sessions                                     *)
(*   stock     the books table of the store, book id -> stock              *)
(*   orders    the number of rows of the orders table of the store         *)
(*   now       the clock, in seconds                                       *)
(*   ticks     how often the clock has advanced                            *)
(*   last      the operation that led to this state: its name, its         *)
(*             arguments and what it returned                              *)
(*   hp        per session, how far a sequence start_order,                *)
(*             process_quantity, process_address_phone, confirm_order,     *)
(*             complete_order of valid direct calls has come               *)
(*   last_cleanup  SessionManager.last_cleanup, in seconds                 *)
(*   th        per concurrent caller, where it is in its call and its      *)
(*             local variables                                             *)
(*   fx        a function of the language processing on its own: its name, *)
(*             its input and, once it is applied, its output               *)
(***************************************************************************)
VARIABLES sessions, stock, orders, now, ticks, last, hp, last_cleanup, th, fx
\* the variables the turns and the direct calls of the order flow leave alone
aux == <<last_cleanup, th, fx>>
vars == <<sessions, stock, orders, now, ticks, last, hp, aux>>

\* the callers that run concurrently, and a caller that is not in a call
Threads == {"t1", "t2"}
IdleThread == [pc |-> "idle"]

Live(S, sid, t) == sid \in DOMAIN S /\ t <= S[sid].expires_at
Idle(S, sid, t) ==
    Live(S, sid, t) /\ S[sid].order_state = NONE /\ S[sid].order_data = None

NoArg == [none |-> TRUE]
NoHp == [stage |-> 0, p |-> 0, q |-> 0]

\* the record of an operation
Record(op, sid, user_input, arg, o, status) ==
    [op |-> op, sid |-> sid, u |-> user_input, arg |-> arg,
     intent |-> o.intent, status |-> status, set |-> o.set,
     steps |-> o.steps, pipeline |-> o.pipeline, create |-> o.create,
     raised |-> o.raised, history |-> o.history, escaped |-> o.escaped,
     result |-> NoArg]
\* the handler result of an operation that is no chat turn
Plain(S) == Out(S, stock, orders, "-", <<>>, {}, FALSE, "none", FALSE)

\* the progress of the sequence of valid direct calls on session sid
HpStep(sid, op, arg) ==
    LET h == hp[sid]
    IN  IF ~Live(sessions, sid, now) THEN NoHp
        ELSE IF op = "start_order" /\ Idle(sessions, sid, now)
        THEN [stage |-> 1, p |-> arg.price, q |-> 1]
        ELSE IF op = "process_quantity" /\ h.stage = 1 /\ arg.quantity >= 1
        THEN [h EXCEPT !.stage = 2, !.q = arg.quantity]
        ELSE IF /\ op = "process_address_phone" /\ h.stage = 2
                /\ arg.address # <<>> /\ arg.phone # <<>>
        THEN [h EXCEPT !.stage = 3]
        ELSE IF op = "confirm_order" /\ h.stage = 3 /\ arg.confirmed
        THEN [h EXCEPT !.stage = 4]
        ELSE IF op = "complete_order" /\ h.stage = 4 /\ arg.success
        THEN [h EXCEPT !.stage = 5]
        ELSE NoHp

\* no function is under study
NoFx == [fn |-> "-"]

\* the chatbot after its construction
Constructed ==
    /\ sessions = <<>>
    /\ stock = StockAtStart
    /\ orders = 0
    /\ now = 0
    /\ ticks = 0
    /\ last = [op |-> "init", sid |-> "-", u |-> <<>>, arg |-> NoArg,
               intent |-> "-", status |-> "-", set |-> <<>>, steps |-> {},
               pipeline |-> FALSE, create |-> "none", raised |-> FALSE,
               history |-> <<>>, escaped |-> FALSE, result |-> NoArg]
    /\ hp = [sid \in AllSessionIds |-> NoHp]
    /\ last_cleanup = 0
    /\ th = [t \in Threads |-> IdleThread]

Init == Constructed /\ fx = NoFx

\* the clock advances
Tick(d) ==
    /\ ticks < MaxTicks
    /\ now' = now + d
    /\ ticks' = ticks + 1
    /\ last' = Record("tick", "-", <<>>, NoArg, Plain(sessions), "-")
    /\ UNCHANGED <<sessions, stock, orders, hp, aux>>

\* session_manager.create_session(): the id is a fresh uuid
CreateSession(sid) ==
    /\ sid \notin DOMAIN sessions
    /\ sessions' = create_session(sessions, sid, now)
    /\ last' = Record("create_session", sid, <<>>, NoArg, Plain(sessions), "-")
    /\ hp' = [hp EXCEPT ![sid] = NoHp]
    /\ UNCHANGED <<stock, orders, now, ticks, aux>>

\* the environment choices a turn reads
NlpFor(S, sid) ==
    IF Live(S, sid, now)
       /\ S[sid].order_state \notin
            {WAITING_QUANTITY, WAITING_ADDRESS_PHONE, CONFIRMING_ORDER}
    THEN NlpResults ELSE {[kind |-> "other", book |-> "-"]}
FaultFor(S, sid) ==
    IF Live(S, sid, now) /\ S[sid].order_state = CONFIRMING_ORDER
    THEN StoreFaults ELSE {"none"}

\* a turn on the sessions S: the sessions as they are when process_message
\* is given the session id, or with the session it creates when it is given
\* none ("-")
TurnCore(S, sid, user_input, nlp, fault) ==
    LET o == process_message(
                 S, stock, orders, sid, user_input, now, nlp, fault)
    IN  /\ o.orders <= MaxOrders
        /\ sessions' = o.S
        /\ stock' = o.stock
        /\ orders' = o.orders
        /\ last' = Record("process_message", sid, user_input,
                           [session_id |-> IF S = sessions THEN sid ELSE "-"],
                           o, "-")
        /\ hp' = [hp EXCEPT ![sid] = NoHp]
        /\ UNCHANGED <<now, ticks>>
\* the ContextManager is left out of the turns that follow
Turn(S, sid, user_input, nlp, fault) ==
    TurnCore(S, sid, user_input, nlp, fault) /\ UNCHANGED aux

\* chatbot.process_message(user_input, session_id)
ProcessMessage(sid, user_input) ==
    \E nlp \in NlpFor(sessions, sid), fault \in FaultFor(sessions, sid) :
        Turn(sessions, sid, user_input, nlp, fault)

\* chatbot.process_message(user_input): a session is created for the turn
ProcessMessageNew(sid, user_input) ==
    /\ sid \notin DOMAIN sessions
    /\ LET S == create_session(sessions, sid, now)
       IN  \E nlp \in NlpFor(S, sid) : Turn(S, sid, user_input, nlp, "none")

\* a direct call of an OrderFlowManager step or of update_order_data
Call(op, sid, arg, r) ==
    /\ sessions' = r.S
    /\ last' = Record(op, sid, <<>>, arg, Plain(r.S), r.status)
    /\ hp' = [hp EXCEPT ![sid] = HpStep(sid, op, arg)]
    /\ UNCHANGED <<stock, orders, now, ticks, aux>>

StartOrder(sid, book_data) ==
    Call("start_order", sid, book_data, start_order(sessions, sid, book_data))

ProcessQuantity(sid, quantity) ==
    Call("process_quantity", sid, [quantity |-> quantity],
         process_quantity(sessions, sid, quantity, now))

ProcessAddressPhone(sid, address, phone) ==
    Call("process_address_phone", sid, [address |-> address, phone |-> phone],
         process_address_phone(sessions, sid, address, phone, now))

ConfirmOrder(sid, confirmed) ==
    Call("confirm_order", sid, [confirmed |-> confirmed],
         confirm_order(sessions, sid, confirmed))

CompleteOrder(sid, success) ==
    Call("complete_order", sid, [success |-> success],
         complete_order(sessions, sid, success))

UpdateOrderData(sid, kw) ==
    LET r == update_order_data(sessions, sid, kw, now)
    IN  Call("update_order_data", sid, kw,
             [S |-> r.S, status |-> IF r.ok THEN "success" ELSE "error"])

\* a direct call of a SessionManager operation
SessionCall(op, sid, arg, S2, lc, status, result) ==
    /\ sessions' = S2
    /\ last_cleanup' = lc
    /\ last' = [Record(op, sid, <<>>, arg, Plain(S2), status)
                   EXCEPT !.result = result]
    /\ hp' = [x \in DOMAIN hp |-> IF x = sid THEN NoHp ELSE hp[x]]
    /\ UNCHANGED <<stock, orders, now, ticks, th, fx>>

Truth(b) == IF b THEN "true" ELSE "false"

GetSession(sid) ==
    SessionCall("get_session", sid, NoArg,
                after_get_session(sessions, sid, now), last_cleanup,
                IF get_session(sessions, sid, now) = None
                THEN "none" ELSE "session",
                NoArg)

GetSessionStatistics ==
    LET r == get_session_statistics(sessions, last_cleanup, now)
    IN  SessionCall("get_session_statistics", "-", NoArg, r.S,
                    r.last_cleanup, "-",
                    [total_sessions |-> r.total_sessions,
                     active_sessions |-> r.active_sessions,
                     order_sessions |-> r.order_sessions,
                     expired_sessions |-> r.expired_sessions])

\* update_session returns whether it holds the session
SetOrderState(sid, state) ==
    SessionCall("set_order_state", sid, [order_state |-> state],
                set_order_state(sessions, sid, state), last_cleanup,
                Truth(sid \in DOMAIN sessions), NoArg)

SetOrderData(sid, order_data) ==
    SessionCall("set_order_data", sid, [order_data |-> order_data],
                set_order_data(sessions, sid, order_data), last_cleanup,
                Truth(sid \in DOMAIN sessions), NoArg)

ClearOrderData(sid) ==
    SessionCall("clear_order_data", sid, NoArg,
                clear_order_data(sessions, sid), last_cleanup,
                Truth(sid \in DOMAIN sessions), NoArg)

\* the direct calls of the SessionManager, among which the clock may
\* advance by a whole day
\* session_manager.cleanup_expired_sessions()
CleanupExpiredSessions ==
    LET c == cleanup_expired_sessions(sessions, last_cleanup, now)
    IN  SessionCall("cleanup_expired_sessions", "-", NoArg, c.S,
                    c.last_cleanup, "-", NoArg)

NextSessions ==
    \/ CleanupExpiredSessions
    \/ \E d \in TickSteps \cup {SecondsPerDay} : Tick(d)
    \/ \E sid \in AllSessionIds : CreateSession(sid)
    \/ \E sid \in AllSessionIds : GetSession(sid)
    \/ GetSessionStatistics
    \/ \E sid \in AllSessionIds, state \in SetStateArgs :
           SetOrderState(sid, state)
    \/ \E sid \in AllSessionIds : SetOrderData(sid, DraftArg)
    \/ \E sid \in AllSessionIds : ClearOrderData(sid)

(***************************************************************************)
(* Two callers run process_message on one session at once.  Nothing in     *)
(* process_message, OrderFlowManager or SessionManager takes a lock, so    *)
(* the callers interleave between the SessionManager calls a turn makes.   *)
(* A turn that finds the session waiting for a quantity and extracts a     *)
(* valid one runs process_quantity call by call; any other turn is one     *)
(* step.  A caller keeps                                                   *)
(*   pc      where it is: "idle", "set_quantity", "read", "set_total",     *)
(*           "set_state", "done",                                          *)
(*   u, q    the utterance and the quantity extracted from it,             *)
(*   total   the total process_quantity computed,                          *)
(*   seq     1 if it began its turn before the other caller, else 2,       *)
(*   S0      the sessions when it began.                                   *)
(***************************************************************************)
AllIdle == \A t \in Threads : th[t].pc = "idle"

ThreadStep(t, S2, next) ==
    /\ sessions' = S2
    /\ th' = [th EXCEPT ![t] = next]
    /\ last' = Record("thread_step", "s1", <<>>, NoArg, Plain(S2), "-")
    /\ hp' = [x \in DOMAIN hp |-> NoHp]
    /\ UNCHANGED <<stock, orders, now, ticks, last_cleanup, fx>>

Began(t, u, q, pc) ==
    [pc |-> pc, u |-> u, q |-> q, total |-> 0,
     seq |-> IF \A o \in Threads : th[o].pc = "idle" THEN 1 ELSE 2,
     S0 |-> sessions]

\* process_message up to the call of process_quantity
T_Begin(t, sid, u) ==
    LET quantity == ExtractedQuantity[u]
    IN  /\ th[t].pc = "idle"
        /\ Live(sessions, sid, now)
        /\ sessions[sid].order_state = WAITING_QUANTITY
        /\ quantity.found /\ quantity.value > 0
        /\ ThreadStep(t, sessions, Began(t, u, quantity.value, "set_quantity"))

\* a turn that does not come to process_quantity
T_Whole(t, sid, u) ==
    LET quantity == ExtractedQuantity[u]
        o == process_message(sessions, stock, orders, sid, u, now,
                             [kind |-> "other", book |-> "-"], "none")
    IN  /\ th[t].pc = "idle"
        /\ Live(sessions, sid, now)
        /\ sessions[sid].order_state \in
               {WAITING_QUANTITY, WAITING_ADDRESS_PHONE}
        /\ ~(/\ sessions[sid].order_state = WAITING_QUANTITY
             /\ quantity.found /\ quantity.value > 0)
        /\ ThreadStep(t, o.S, Began(t, u, 0, "done"))

\* process_quantity: update_order_data(session_id, quantity=quantity)
T_SetQuantity(t, sid) ==
    LET r == update_order_data(sessions, sid, [quantity |-> th[t].q], now)
    IN  /\ th[t].pc = "set_quantity"
        /\ ThreadStep(t, r.S,
               [th[t] EXCEPT !.pc = IF r.ok THEN "read" ELSE "done"])

\* process_quantity: get_order_data, total_price = order_data.price * quantity
T_Read(t, sid) ==
    LET order_data == get_order_data(sessions, sid, now)
    IN  /\ th[t].pc = "read"
        /\ ThreadStep(t, after_get_session(sessions, sid, now),
               IF order_data = None
               THEN [th[t] EXCEPT !.pc = "done"]
               ELSE [th[t] EXCEPT !.pc = "set_total",
                                  !.total = order_data.price * th[t].q])

\* process_quantity: update_order_data(session_id, total_price=total_price)
T_SetTotal(t, sid) ==
    LET r == update_order_data(sessions, sid,
                               [total_price |-> th[t].total], now)
    IN  /\ th[t].pc = "set_total"
        /\ ThreadStep(t, r.S, [th[t] EXCEPT !.pc = "set_state"])

\* process_quantity: set_order_state(WAITING_ADDRESS_PHONE), and the rest of
\* the turn
T_SetState(t, sid) ==
    /\ th[t].pc = "set_state"
    /\ ThreadStep(t, set_order_state(sessions, sid, WAITING_ADDRESS_PHONE),
           [th[t] EXCEPT !.pc = "done"])

\* an order is started on a session, then two callers send their turns
NextRace ==
    \/ \E sid \in SessionIds : AllIdle /\ CreateSession(sid)
    \/ \E sid \in SessionIds, book_data \in BookData :
           AllIdle /\ StartOrder(sid, book_data)
    \/ \E t \in Threads, sid \in SessionIds, u \in RaceUtterances :
           T_Begin(t, sid, u)
    \/ \E t \in Threads, sid \in SessionIds, u \in RaceUtterances :
           T_Whole(t, sid, u)
    \/ \E t \in Threads, sid \in SessionIds : T_SetQuantity(t, sid)
    \/ \E t \in Threads, sid \in SessionIds : T_Read(t, sid)
    \/ \E t \in Threads, sid \in SessionIds : T_SetTotal(t, sid)
    \/ \E t \in Threads, sid \in SessionIds : T_SetState(t, sid)

(***************************************************************************)
(* Two callers run DatabaseManager.create_order at once.  Each call reads  *)
(* the book through get_book_by_id, on a connection of its own, and then   *)
(* writes in one transaction: the INSERT of the order and the UPDATE of    *)
(* the stock to the stock it read minus the quantity.  A caller keeps      *)
(*   pc      "idle", "check", "write", "done",                             *)
(*   order   the order: book_id and quantity,                              *)
(*   read    the stock get_book_by_id returned,                            *)
(*   ok      the result of the call.                                       *)
(***************************************************************************)
OrderArgs ==
    {[book_id |-> "b1", quantity |-> 2], [book_id |-> "b1", quantity |-> 3],
     [book_id |-> "b2", quantity |-> 1], [book_id |-> "b9", quantity |-> 1]}

StoreStep(t, stock2, orders2, next) ==
    /\ stock' = stock2
    /\ orders' = orders2
    /\ th' = [th EXCEPT ![t] = next]
    /\ last' = Record("store_step", "-", <<>>, NoArg, Plain(sessions), "-")
    /\ UNCHANGED <<sessions, now, ticks, hp, last_cleanup, fx>>

\* create_order(order) is called
S_Begin(t, order) ==
    /\ th[t].pc = "idle"
    /\ StoreStep(t, stock, orders,
           [pc |-> "check", order |-> order, read |-> 0, ok |-> FALSE])

\* book = get_book_by_id(order.book_id); not book or book.stock < quantity
S_Check(t, fault) ==
    LET order == th[t].order
    IN  /\ th[t].pc = "check"
        /\ StoreStep(t, stock, orders,
               IF \/ fault # "none"
                  \/ order.book_id \notin DOMAIN stock
                  \/ stock[order.book_id] < order.quantity
               THEN [th[t] EXCEPT !.pc = "done"]
               ELSE [th[t] EXCEPT !.pc = "write",
                                  !.read = stock[order.book_id]])

\* the INSERT, the UPDATE of the stock to book.stock - quantity and the
\* commit; an sqlite3 error rolls the transaction back and gives False
S_Write(t, fault) ==
    LET order == th[t].order
    IN  /\ th[t].pc = "write"
        /\ IF fault # "none"
           THEN StoreStep(t, stock, orders, [th[t] EXCEPT !.pc = "done"])
           ELSE StoreStep(t,
                    [stock EXCEPT ![order.book_id] =
                                      th[t].read - order.quantity],
                    orders + 1,
                    [th[t] EXCEPT !.pc = "done", !.ok = TRUE])

\* two callers of create_order
NextStore ==
    \/ \E t \in Threads, order \in OrderArgs : S_Begin(t, order)
    \/ \E t \in Threads, fault \in {"none", "error"} : S_Check(t, fault)
    \/ \E t \in Threads, fault \in {"none", "error"} : S_Write(t, fault)

(***************************************************************************)
(* The functions of the language processing, each on its own: the input   *)
(* is drawn at the start and the function is applied to it once.           *)
(***************************************************************************)
Drawn(fn, inputs) ==
    /\ Constructed
    /\ fx \in {[fn |-> fn, in |-> x, done |-> FALSE, out |-> NoArg] :
                  x \in inputs}
Apply(fn, out) ==
    /\ fx.fn = fn
    /\ ~fx.done
    /\ fx' = [fx EXCEPT !.done = TRUE, !.out = out]
    /\ UNCHANGED <<sessions, stock, orders, now, ticks, last, hp,
                   last_cleanup, th>>

\* the raw confidences, in hundredths, of the matches of an intent
FoundArgs == {<<>>, <<50>>, <<52>>, <<50, 52>>}
FoundIntents == {"order", "query", "greeting", "goodbye"}
ClassifyInputs ==
    {[i \in DOMAIN intent_priority |->
         IF i \in FoundIntents THEN f[i] ELSE <<>>] :
        f \in [FoundIntents -> FoundArgs]}
ClassifyIntent == Apply("classify_intent", classify_intent(fx.in))
SpecClassify ==
    Drawn("classify_intent", ClassifyInputs) /\ [][ClassifyIntent]_vars

\* texts of at most MaxWords words, drawn from words of each keyword set
MaxWords == 3
W_wow == <<"w", "o", "w">>
W_gap == <<"g", "u1EA5", "p">>
W_tot == <<"t", "u1ED1", "t">>
W_hay == <<"h", "a", "y">>
W_te == <<"t", "u1EC7">>
W_giup == <<"g", "i", "u00FA", "p">>
W_sach == <<"s", "u00E1", "c", "h">>
W_WOW == <<"W", "O", "W">>
SentimentWords == {W_wow, W_gap, W_tot, W_hay}
                   \cup {W_te, W_giup, W_sach, W_WOW}
\* ' '.join(ws)
RECURSIVE Join(_)
Join(ws) ==
    IF ws = <<>> THEN <<>>
    ELSE IF Len(ws) = 1 THEN ws[1]
    ELSE ws[1] \o <<" ">> \o Join(Tail(ws))
SentimentInputs ==
    {Join(ws) : ws \in UNION {[1..n -> SentimentWords] : n \in 0..MaxWords}}
AnalyzeSentiment == Apply("analyze_sentiment", analyze_sentiment(fx.in))
SpecSentiment ==
    Drawn("analyze_sentiment", SentimentInputs) /\ [][AnalyzeSentiment]_vars
\* price texts: a lead, a keyword, a number and a tail, and the three texts
\* of the examples
PriceLeads ==
    {<<>>, <<"g", "i", "u00E1", " ">>, <<"s", "u00E1", "c", "h", " ">>}
PriceKeywords ==
    {<<>>, <<"t", "u1EEB", " ">>, <<"d", "u01B0", "u1EDB", "i", " ">>,
     <<"t", "r", "u00EA", "n", " ">>,
     <<"c", "a", "o", " ", "h", "u01A1", "n", " ">>,
     <<"t", "h", "u1EA5", "p", " ", "h", "u01A1", "n">>,
     <<"T", "R", "u00CA", "N", " ">>}
PriceNumbers ==
    {<<"5">>, <<"5", "0">>}
PriceTails ==
    {<<>>, <<" ", "u0111", "u1EBF", "n", " ", "1", "5">>,
     <<" ", "V", "N", "D">>, <<" ", "v", "n", "d">>,
     <<" ", "d", "u01B0", "u1EDB", "i", " ", "9">>,
     <<" ", "t", "r", "u00EA", "n", " ", "7">>}
T_range == <<"g", "i", "u00E1", " ", "t", "u1EEB", " ", "5", "0", "0", "0", "0", " ", "u0111", "u1EBF", "n", " ", "1", "5", "0", "0", "0", "0">>
T_below == <<"d", "u01B0", "u1EDB", "i", " ", "1", "0", "0", "0", "0", "0">>
T_above == <<"t", "r", "u00EA", "n", " ", "2", "0", "0", "0", "0", "0">>
PriceInputs ==
    {a \o b \o c \o d : a \in PriceLeads, b \in PriceKeywords,
                        c \in PriceNumbers, d \in PriceTails}
        \cup {T_range, T_below, T_above}
ExtractPriceParameters ==
    Apply("_extract_price_parameters", extract_price_parameters(fx.in))
SpecPrice ==
    Drawn("_extract_price_parameters", PriceInputs)
        /\ [][ExtractPriceParameters]_vars
\* texts of at most MaxChars characters: letters of either case, whitespace
\* and punctuation
MaxChars == 4
NormalizeChars == {"A", "b", "u0110", " ", "\t", "!"}
NormalizeInputs == UNION {[1..n -> NormalizeChars] : n \in 0..MaxChars}
NormalizeText == Apply("normalize_text", normalize_text(fx.in))
SpecNormalize ==
    Drawn("normalize_text", NormalizeInputs) /\ [][NormalizeText]_vars
\* the fuzzy extractors: scores at a threshold and one point below it
FuzzyScores == {59, 60, 79, 80}
FuzzyThresholds == {60, 80}
FuzzyInputs ==
    {[exact |-> e, scores |-> s, threshold |-> t] :
        e \in SUBSET Choices, s \in [Choices -> FuzzyScores],
        t \in FuzzyThresholds}
Extractors ==
    {"extract_book_title", "extract_author_fuzzy", "extract_category_fuzzy"}
ExtractBookTitle ==
    Apply("extract_book_title",
          extract_book_title(fx.in.exact, fx.in.scores, fx.in.threshold))
ExtractAuthorFuzzy ==
    Apply("extract_author_fuzzy",
          extract_author_fuzzy(fx.in.exact, fx.in.scores, fx.in.threshold))
ExtractCategoryFuzzy ==
    Apply("extract_category_fuzzy",
          extract_category_fuzzy(fx.in.exact, fx.in.scores, fx.in.threshold))
NextFuzzy == ExtractBookTitle \/ ExtractAuthorFuzzy \/ ExtractCategoryFuzzy
SpecFuzzy ==
    (\E f \in Extractors : Drawn(f, FuzzyInputs)) /\ [][NextFuzzy]_vars
\* the turns of the chat alone
NextChat ==
    \/ \E d \in TickSteps : Tick(d)
    \/ \E sid \in SessionIds : CreateSession(sid)
    \/ \E sid \in SessionIds, u \in Utterances : ProcessMessage(sid, u)
    \/ \E sid \in SessionIds, u \in Utterances : ProcessMessageNew(sid, u)

(***************************************************************************)
(* The turns of the chat with the ContextManager: fx.contexts is           *)
(* ContextManager.contexts.  process_input, which _handle_normal_          *)
(* conversation calls, is the one caller of update_context.                *)
(***************************************************************************)
MaxUpdates == 1
\* the intent results that process_input can come to for a turn that the
\* handlers treat as nlp; the sentiment is that of the utterance
ResultsOf(nlp, user_input) ==
    {[intent |-> i, confidence |-> 80,
      parameters |-> [category |-> IF i = SEARCH_BY_CATEGORY
                                   THEN {"fiction"} ELSE {},
                      author |-> {}, price_range |-> {}],
      original_text |-> user_input,
      sentiment |-> {analyze_sentiment(user_input)}] :
        i \in IF nlp.kind \in {"order", "order_error"} THEN {ORDER}
              ELSE {GREETING, SEARCH_BY_CATEGORY}}
NoContexts == [fn |-> "contexts", contexts |-> [x \in {} |-> NewContext]]
\* a turn: when it runs process_input the context of the session is
\* updated, unless an exception came before the update
ContextTurn(S, sid, user_input, nlp, fault) ==
    LET had == get_context(fx.contexts, sid)
    IN  /\ TurnCore(S, sid, user_input, nlp, fault)
        /\ IF last'.pipeline
           THEN /\ Len(had[sid].conversation_history) < MaxUpdates
                /\ \E r \in ResultsOf(nlp, user_input),
                      reached \in IF last'.raised THEN BOOLEAN ELSE {TRUE} :
                       fx' = IF reached
                             THEN [fx EXCEPT !.contexts =
                                      [had EXCEPT ![sid] =
                                          update_context(@, user_input, r,
                                                         now)]]
                             ELSE fx
           ELSE fx' = fx
        /\ UNCHANGED <<last_cleanup, th>>
ContextMessage(sid, user_input) ==
    \E nlp \in NlpFor(sessions, sid), fault \in FaultFor(sessions, sid) :
        ContextTurn(sessions, sid, user_input, nlp, fault)
ContextMessageNew(sid, user_input) ==
    /\ sid \notin DOMAIN sessions
    /\ LET S == create_session(sessions, sid, now)
       IN  \E nlp \in NlpFor(S, sid) :
               ContextTurn(S, sid, user_input, nlp, "none")
\* an utterance that each waiting state accepts, and one it does not
ContextUtterances == {U_three, U_zero, U_addr_kw, U_yes}
NextContext ==
    \/ \E sid \in SessionIds : CreateSession(sid)
    \/ \E sid \in SessionIds, u \in ContextUtterances :
           ContextMessage(sid, u)
    \/ \E sid \in SessionIds, u \in ContextUtterances :
           ContextMessageNew(sid, u)
    \/ \E sid \in SessionIds, b \in BookData : StartOrder(sid, b)
InitContext == Constructed /\ fx = NoContexts
SpecContext == InitContext /\ [][NextContext]_vars
(***************************************************************************)
(* A sequence of update_context calls on the context of one session:       *)
(* fx.calls is every intent result handed over so far, fx.context the      *)
(* context.  The time of a call is its number.                             *)
(***************************************************************************)
MaxCalls == 11
CallOf(intent, category, sentiment) ==
    [intent |-> intent, confidence |-> 80,
     parameters |-> [category |-> category, author |-> {},
                     price_range |-> {}],
     original_text |-> <<>>, sentiment |-> sentiment]
\* the intent results of a call: odd calls may come without a sentiment
CallsAt(n) ==
    IF n % 2 = 1
    THEN {CallOf(GREETING, {}, {}), CallOf(ORDER, {}, {EXCITED})}
    ELSE {CallOf(SEARCH_BY_CATEGORY, {"fiction"}, {FRUSTRATED}),
          CallOf(ORDER, {}, {EXCITED})}
NoCalls == [fn |-> "update_context", calls |-> <<>>, context |-> NewContext]
UpdateContext ==
    /\ fx.fn = "update_context"
    /\ Len(fx.calls) < MaxCalls
    /\ \E r \in CallsAt(Len(fx.calls) + 1) :
           fx' = [fx EXCEPT
                     !.calls = Append(@, r),
                     !.context = update_context(@, r.original_text, r,
                                                Len(fx.calls) + 1)]
    /\ UNCHANGED <<sessions, stock, orders, now, ticks, last, hp,
                   last_cleanup, th>>
InitHistory == Constructed /\ fx = NoCalls
SpecHistory == InitHistory /\ [][UpdateContext]_vars
(***************************************************************************)
(* The turns of the chat with the conversation history of the sessions:    *)
(* fx.history[sid] is sessions[sid].conversation_history, fx.added[sid]    *)
(* the number of messages added to it so far, which is the time of the     *)
(* last of them.  No time passes, so that no session is deleted.           *)
(***************************************************************************)
MaxMessages == 52
\* the turns that an exception stops come among the first messages
FaultsBefore == 2
NoMessages ==
    [fn |-> "history", history |-> [s \in SessionIds |-> <<>>],
     added |-> [s \in SessionIds |-> 0]]
\* the messages of the given roles added one after another
RECURSIVE AddAll(_, _, _)
AddAll(conversation_history, roles, n) ==
    IF roles = <<>> THEN conversation_history
    ELSE AddAll(add_message_to_history(conversation_history, roles[1], n + 1),
                Tail(roles), n + 1)
\* last'.history holds the roles of the messages the turn added, and
\* last'.raised whether an exception stopped it
MessageTurn(S, sid, user_input, nlp, fault) ==
    /\ TurnCore(S, sid, user_input, nlp, fault)
    /\ fx.added[sid] + Len(last'.history) <= MaxMessages
    /\ last'.raised => fx.added[sid] < FaultsBefore
    /\ fx' = [fx EXCEPT
                 !.history[sid] = AddAll(@, last'.history, fx.added[sid]),
                 !.added[sid] = @ + Len(last'.history)]
    /\ UNCHANGED <<last_cleanup, th>>
MessageOn(sid, user_input) ==
    \E nlp \in NlpFor(sessions, sid), fault \in FaultFor(sessions, sid) :
        MessageTurn(sessions, sid, user_input, nlp, fault)
MessageNew(sid, user_input) ==
    /\ sid \notin DOMAIN sessions
    /\ LET S == create_session(sessions, sid, now)
       IN  \E nlp \in NlpFor(S, sid) :
               MessageTurn(S, sid, user_input, nlp, "none")
NextMessages ==
    \/ \E sid \in SessionIds : CreateSession(sid)
    \/ \E sid \in SessionIds, u \in ContextUtterances : MessageOn(sid, u)
    \/ \E sid \in SessionIds, u \in ContextUtterances : MessageNew(sid, u)
InitMessages == Constructed /\ fx = NoMessages
SpecMessages == InitMessages /\ [][NextMessages]_vars
\* _improve_intent_with_context: intent results on either side of the
\* confidence 0.7, with and without words of confirmation, and contexts
\* with each last intent, with and without a topic
T_co == W_co \o <<" ">> \o W_sach
T_cancel == W_cancel
T_plain == W_sach
ImproveResults ==
    {[intent |-> i, confidence |-> c,
      parameters |-> [category |-> g, author |-> {}, price_range |-> {}],
      original_text |-> u, sentiment |-> {NEUTRAL}] :
        i \in {UNKNOWN, GREETING}, c \in {30, 69, 70, 85},
        g \in {{}, {"history"}}, u \in {T_co, T_cancel, T_plain}}
ImproveContexts ==
    {[NewContext EXCEPT !.last_intent = l, !.current_topic = k] :
        l \in {{}, {ORDER}, {SEARCH_BY_CATEGORY}, {GREETING}},
        k \in {{}, {"fiction"}}}
ImproveInputs ==
    {[intent_result |-> r, context |-> c] :
        r \in ImproveResults, c \in ImproveContexts}
ImproveIntentWithContext ==
    Apply("_improve_intent_with_context",
          improve_intent_with_context(fx.in.intent_result, fx.in.context))
SpecImprove ==
    Drawn("_improve_intent_with_context", ImproveInputs)
        /\ [][ImproveIntentWithContext]_vars
(***************************************************************************)
(* get_smart_suggestions after a sequence of update_context calls that     *)
(* record preferences: fx.calls is the intent results handed over,         *)
(* fx.context the context, fx.out the suggestions for fx.intent.           *)
(***************************************************************************)
MaxPreferences == 4
PreferenceCalls ==
    {[CallOf(SEARCH_BY_CATEGORY, {c}, {EXCITED}) EXCEPT
         !.parameters.category = {c}] : c \in {"fiction", "history", "science"}}
    \cup {[CallOf(SEARCH_BY_AUTHOR, {}, {NEUTRAL}) EXCEPT
              !.parameters.author = {a}] : a \in {"nam cao", "to hoai"}}
    \cup {CallOf(QUERY, {}, {FRUSTRATED})}
NoPreferences ==
    [fn |-> "get_smart_suggestions", calls |-> <<>>, context |-> NewContext,
     intent |-> "-", done |-> FALSE, out |-> <<>>]
Prefer ==
    /\ fx.fn = "get_smart_suggestions"
    /\ ~fx.done
    /\ Len(fx.calls) < MaxPreferences
    /\ \E r \in PreferenceCalls :
           fx' = [fx EXCEPT
                     !.calls = Append(@, r),
                     !.context = update_context(@, r.original_text, r,
                                                Len(fx.calls) + 1)]
    /\ UNCHANGED <<sessions, stock, orders, now, ticks, last, hp,
                   last_cleanup, th>>
GetSmartSuggestions ==
    /\ fx.fn = "get_smart_suggestions"
    /\ ~fx.done
    /\ \E current_intent \in
              {SEARCH_BY_CATEGORY, SEARCH_BY_AUTHOR, QUERY, GREETING} :
           fx' = [fx EXCEPT
                     !.intent = current_intent,
                     !.done = TRUE,
                     !.out = get_smart_suggestions(fx.context,
                                                   current_intent)]
    /\ UNCHANGED <<sessions, stock, orders, now, ticks, last, hp,
                   last_cleanup, th>>
NextSuggest == Prefer \/ GetSmartSuggestions
InitSuggest == Constructed /\ fx = NoPreferences
SpecSuggest == InitSuggest /\ [][NextSuggest]_vars
(***************************************************************************)
(* The turns of one order, from its start to its confirmation, with        *)
(* utterances that hold tokens of both kinds.                              *)
(***************************************************************************)
ConfirmUtterances == {U_three, U_addr_kw, U_yes, U_no} \cup MixedUtterances
NextConfirm ==
    \/ \E d \in TickSteps : Tick(d)
    \/ \E sid \in SessionIds : CreateSession(sid)
    \/ \E sid \in SessionIds, u \in ConfirmUtterances :
           ProcessMessage(sid, u)
    \/ \E sid \in SessionIds, u \in ConfirmUtterances :
           ProcessMessageNew(sid, u)
    \/ \E sid \in SessionIds, b \in BookData : StartOrder(sid, b)
SpecConfirm == Init /\ [][NextConfirm]_vars
\* the turns and the direct calls
Next ==
    \/ \E d \in TickSteps : Tick(d)
    \/ \E sid \in SessionIds : CreateSession(sid)
    \/ \E sid \in SessionIds, u \in Utterances : ProcessMessage(sid, u)
    \/ \E sid \in SessionIds, u \in Utterances : ProcessMessageNew(sid, u)
    \/ \E sid \in SessionIds, b \in BookData : StartOrder(sid, b)
    \/ \E sid \in SessionIds, q \in QuantityArgs : ProcessQuantity(sid, q)
    \/ \E sid \in SessionIds, ap \in AddressPhoneArgs :
            ProcessAddressPhone(sid, ap[1], ap[2])
    \/ \E sid \in SessionIds, c \in BOOLEAN : ConfirmOrder(sid, c)
    \/ \E sid \in SessionIds, ok \in BOOLEAN : CompleteOrder(sid, ok)
    \/ \E sid \in SessionIds, kw \in UpdateArgs : UpdateOrderData(sid, kw)

Spec == Init /\ [][Next]_vars
SpecChat == Init /\ [][NextChat]_vars
SpecSessions == Init /\ [][NextSessions]_vars
SpecRace == Init /\ [][NextRace]_vars
SpecStore == Init /\ [][NextStore]_vars

(***************************************************************************)
(* Properties.  A step of the model is one operation; last' names the      *)
(* operation and what it returned, the unprimed variables are the state    *)
(* it started from and the primed ones the state it left.                  *)
(***************************************************************************)
FlowStates == {WAITING_QUANTITY, WAITING_ADDRESS_PHONE, CONFIRMING_ORDER}
Terminal == {ORDER_COMPLETED, ORDER_CANCELLED}

\* the step is a chat turn on session sid, which was live when it started
TurnOn(sid) ==
    /\ last'.op = "process_message"
    /\ last'.sid = sid
    /\ Live(sessions, sid, now)

\* the shape each waiting state expects of an utterance
HasPositiveInteger(u) ==
    \E i \in 1..Len(u) :
        /\ QuantityMatchAt(u, i)
        /\ ToInt(SubSeq(u, i, i + DigitRunLen(u, i) - 1)) > 0
HasPhone(u) == \E i \in 1..Len(u) : DigitRunLen(u, i) >= 10
HasAddress(u) == Strip(RemovePhones(u, 1)) # <<>>
HasToken(u) ==
    AnyTokenIn(AffirmativeTokens, u) \/ AnyTokenIn(NegativeTokens, u)
ExpectedShape(state, u) ==
    IF state = WAITING_QUANTITY THEN HasPositiveInteger(u)
    ELSE IF state = WAITING_ADDRESS_PHONE THEN HasPhone(u) /\ HasAddress(u)
    ELSE HasToken(u)
\* the shapes of the utterances of the model, computed once
Shaped ==
    [state \in FlowStates |-> [u \in Utterances |-> ExpectedShape(state, u)]]
Reprompt(state) ==
    IF state = WAITING_QUANTITY THEN "order_quantity_error"
    ELSE IF state = WAITING_ADDRESS_PHONE THEN "order_address_phone_error"
    ELSE "order_confirmation_error"

\* C1: a chat turn on a live session waiting for a quantity, for address and
\* phone, or for a confirmation, whose utterance lacks what that state
\* expects, answers with the state's re-prompt and leaves the session's
\* order state and draft as they were.
C1_MalformedReprompts ==
    [][\A sid \in SessionIds :
          (/\ TurnOn(sid)
           /\ sessions[sid].order_state \in FlowStates
           /\ ~Shaped[sessions[sid].order_state][last'.u])
          => /\ last'.intent = Reprompt(sessions[sid].order_state)
             /\ sid \in DOMAIN sessions'
             /\ sessions'[sid].order_state = sessions[sid].order_state
             /\ sessions'[sid].order_data = sessions[sid].order_data]_vars

\* a turn in WAITING_QUANTITY said "0" and was answered with the re-prompt
C1_Witness ==
    /\ last.op = "process_message"
    /\ last.u = U_zero
    /\ last.intent = "order_quantity_error"
    /\ last.sid \in DOMAIN sessions
    /\ sessions[last.sid].order_state = WAITING_QUANTITY
    /\ sessions[last.sid].order_data # None

\* the step changed the draft's quantity or its unit price through one of the
\* operations that write them
WritesQuantityOrPrice ==
    /\ last'.status = "success"
    /\ \/ last'.op \in {"start_order", "process_quantity"}
       \/ /\ last'.op = "update_order_data"
          /\ DOMAIN last'.arg \cap {"quantity", "price"} # {}

\* C2: after start_order, process_quantity, or update_order_data with a
\* quantity or price field, the draft's total_price equals its price times
\* its quantity.
C2_TotalIsPriceTimesQuantity ==
    [][\A sid \in SessionIds :
          (/\ WritesQuantityOrPrice
           /\ last'.sid = sid
           /\ sid \in DOMAIN sessions'
           /\ sessions'[sid].order_data # None)
          => LET d == sessions'[sid].order_data
             IN  d.total_price = d.price * d.quantity]_vars

\* C3: whenever a session holds a draft, its order state is not NONE.
C3_DraftImpliesState ==
    \A sid \in DOMAIN sessions :
        sessions[sid].order_data # None => sessions[sid].order_state # NONE

\* a finished order still holds its draft, in a state other than NONE
C3_Witness ==
    \E sid \in DOMAIN sessions :
        /\ sessions[sid].order_data # None
        /\ sessions[sid].order_state = ORDER_COMPLETED

\* the edges of the order flow
Edges ==
    {<<NONE, WAITING_QUANTITY>>,
     <<WAITING_QUANTITY, WAITING_ADDRESS_PHONE>>,
     <<WAITING_ADDRESS_PHONE, CONFIRMING_ORDER>>,
     <<CONFIRMING_ORDER, PROCESSING_ORDER>>,
     <<PROCESSING_ORDER, ORDER_COMPLETED>>,
     <<PROCESSING_ORDER, ORDER_CANCELLED>>,
     <<CONFIRMING_ORDER, NONE>>,
     <<ORDER_COMPLETED, NONE>>,
     <<ORDER_CANCELLED, NONE>>}
\* the order states session sid went through in this step: the one it
\* started in, then each assignment of the operation in order
StatePath(sid) ==
    <<sessions[sid].order_state>>
        \o (IF last'.sid = sid THEN last'.set ELSE <<>>)

\* C4: in the chat alone, every assignment of a session's order state
\* follows an edge of NONE -> WAITING_QUANTITY -> WAITING_ADDRESS_PHONE ->
\* CONFIRMING_ORDER -> PROCESSING_ORDER -> {ORDER_COMPLETED,
\* ORDER_CANCELLED}, CONFIRMING_ORDER -> NONE, or {ORDER_COMPLETED,
\* ORDER_CANCELLED} -> NONE; the state a session has after a step is the
\* end of that path.
C4_StateFollowsEdges ==
    [][\A sid \in DOMAIN sessions \cap DOMAIN sessions' :
          LET path == StatePath(sid)
          IN  /\ path[Len(path)] = sessions'[sid].order_state
              /\ \A i \in 1..(Len(path) - 1) :
                     <<path[i], path[i + 1]>> \in Edges]_vars

\* a turn on a finished order reset the state to NONE and started a new
\* order within the same turn
C4_Witness ==
    /\ last.op = "process_message"
    /\ last.set = <<NONE, WAITING_QUANTITY>>
    /\ last.sid \in DOMAIN sessions
    /\ sessions[last.sid].order_state = WAITING_QUANTITY

\* the order state each step of the flow is meant for
Designated ==
    [start_order |-> NONE,
     process_quantity |-> WAITING_QUANTITY,
     process_address_phone |-> WAITING_ADDRESS_PHONE,
     confirm_order |-> CONFIRMING_ORDER,
     complete_order |-> PROCESSING_ORDER]

\* C5: a step of OrderFlowManager called on a live session whose order
\* state is not the step's designated state changes neither the order state
\* nor the draft.
C5_StepOnlyInItsState ==
    [][\A sid \in SessionIds :
          (/\ last'.op \in DOMAIN Designated
           /\ last'.sid = sid
           /\ Live(sessions, sid, now)
           /\ sessions[sid].order_state # Designated[last'.op])
          => /\ sid \in DOMAIN sessions'
             /\ sessions'[sid].order_state = sessions[sid].order_state
             /\ sessions'[sid].order_data = sessions[sid].order_data]_vars

\* the step was called with an argument the flow is to reject
InvalidArgument ==
    \/ last'.op = "process_quantity" /\ last'.arg.quantity <= 0
    \/ /\ last'.op = "process_address_phone"
       /\ (last'.arg.address = <<>> \/ last'.arg.phone = <<>>)

\* C6: process_quantity with a quantity <= 0, and process_address_phone
\* with an empty address or phone, on a live session return a result that is
\* not a success and leave the order state and the draft unchanged.
C6_InvalidArgumentRejected ==
    [][\A sid \in SessionIds :
          (/\ InvalidArgument
           /\ last'.sid = sid
           /\ Live(sessions, sid, now))
          => /\ last'.status # "success"
             /\ sid \in DOMAIN sessions'
             /\ sessions'[sid].order_state = sessions[sid].order_state
             /\ sessions'[sid].order_data = sessions[sid].order_data]_vars

\* the order state after each stage of the sequence of valid direct calls
StageState ==
    [i \in 1..5 |->
        IF i = 1 THEN WAITING_QUANTITY
        ELSE IF i = 2 THEN WAITING_ADDRESS_PHONE
        ELSE IF i = 3 THEN CONFIRMING_ORDER
        ELSE IF i = 4 THEN PROCESSING_ORDER
        ELSE ORDER_COMPLETED]

\* C7: along start_order on an idle session, process_quantity(q) with
\* q >= 1, process_address_phone with a non-empty address and phone,
\* confirm_order(true), complete_order(success), the session is in the
\* state of the stage reached, ORDER_COMPLETED at the end, and from
\* process_quantity onward the draft's total_price is p * q.
C7_HappyPath ==
    \A sid \in SessionIds :
        hp[sid].stage >= 1
        => /\ sid \in DOMAIN sessions
           /\ sessions[sid].order_state = StageState[hp[sid].stage]
           /\ sessions[sid].order_data # None
           /\ sessions[sid].order_data.price = hp[sid].p
           /\ hp[sid].stage >= 2
              => /\ sessions[sid].order_data.quantity = hp[sid].q
                 /\ sessions[sid].order_data.total_price
                        = hp[sid].p * hp[sid].q

\* the sequence ran to its end with unit price 150000 and quantity 3
C7_Witness ==
    \E sid \in DOMAIN sessions :
        /\ hp[sid] = [stage |-> 5, p |-> 150000, q |-> 3]
        /\ sessions[sid].order_state = ORDER_COMPLETED
        /\ sessions[sid].order_data.total_price = 450000

\* the step refuses the order of a session in CONFIRMING_ORDER: the direct
\* call confirm_order(false), or a turn on a live session whose utterance
\* holds a negative token and no affirmative one
Refuses(sid) ==
    /\ last'.sid = sid
    /\ sid \in DOMAIN sessions
    /\ sessions[sid].order_state = CONFIRMING_ORDER
    /\ \/ last'.op = "confirm_order" /\ ~last'.arg.confirmed
       \/ TurnOn(sid) /\ SaysNo[last'.u] /\ ~SaysYes[last'.u]

\* C8: confirm_order(false) in CONFIRMING_ORDER, and a turn in
\* CONFIRMING_ORDER whose utterance carries only a negative token, leave
\* the session with no draft and order state NONE, and the store as it was.
C8_RefusalClears ==
    [][\A sid \in SessionIds :
          Refuses(sid)
          => /\ sid \in DOMAIN sessions'
             /\ sessions'[sid].order_state = NONE
             /\ sessions'[sid].order_data = None
             /\ last'.create = "none"
             /\ stock' = stock
             /\ orders' = orders]_vars

\* a turn said "không" to a draft awaiting confirmation
C8_Witness ==
    /\ last.op = "process_message"
    /\ last.u = U_no
    /\ last.intent = "order_cancelled"
    /\ last.set = <<NONE>>
    /\ last.sid \in DOMAIN sessions
    /\ sessions[last.sid].order_state = NONE
    /\ sessions[last.sid].order_data = None

\* C9: a turn on a live session in CONFIRMING_ORDER that calls the store's
\* create_order ends in ORDER_COMPLETED exactly when create_order returned
\* success, and in ORDER_CANCELLED when it returned a falsy result or
\* raised; no exception leaves the turn, an order row is added exactly on
\* success, and the draft is on the session after the turn unchanged.
C9_CommitOutcome ==
    [][\A sid \in SessionIds :
          (/\ TurnOn(sid)
           /\ sessions[sid].order_state = CONFIRMING_ORDER
           /\ last'.create # "none")
          => /\ sid \in DOMAIN sessions'
             /\ sessions'[sid].order_state = ORDER_COMPLETED
                    <=> last'.create = "success"
             /\ last'.create \in {"false", "raise"}
                    => sessions'[sid].order_state = ORDER_CANCELLED
             /\ ~last'.raised
             /\ last'.intent = IF last'.create = "success"
                               THEN "order_completed" ELSE "order_failed"
             /\ orders' = IF last'.create = "success"
                          THEN orders + 1 ELSE orders
             /\ sessions'[sid].order_data # None
             /\ sessions'[sid].order_data = sessions[sid].order_data]_vars

\* a confirmation whose create_order raised ended in ORDER_CANCELLED with
\* the draft kept
C9_Witness ==
    /\ last.op = "process_message"
    /\ last.create = "raise"
    /\ last.intent = "order_failed"
    /\ last.sid \in DOMAIN sessions
    /\ sessions[last.sid].order_state = ORDER_CANCELLED
    /\ sessions[last.sid].order_data # None

\* the draft start_order leaves
Fresh(d) ==
    /\ d # None
    /\ d.quantity = 1
    /\ d.total_price = d.price
    /\ d.phone = <<>>
    /\ d.address = <<>>

\* C10: a turn on a live session in ORDER_COMPLETED or ORDER_CANCELLED
\* calls neither process_quantity, process_address_phone, confirm_order nor
\* complete_order and not the store; it first resets the state to NONE,
\* runs the normal pipeline, and leaves the session without a draft in
\* NONE, or, when the pipeline started a new order, with a fresh draft in
\* WAITING_QUANTITY.
C10_FinishedOrderIsReset ==
    [][\A sid \in SessionIds :
          (/\ TurnOn(sid)
           /\ sessions[sid].order_state \in Terminal)
          => /\ last'.steps \subseteq {"start_order"}
             /\ last'.create = "none"
             /\ last'.pipeline
             /\ last'.set # <<>>
             /\ Head(last'.set) = NONE
             /\ sid \in DOMAIN sessions'
             /\ IF "start_order" \in last'.steps
                THEN /\ sessions'[sid].order_state = WAITING_QUANTITY
                     /\ Fresh(sessions'[sid].order_data)
                ELSE /\ sessions'[sid].order_state = NONE
                     /\ sessions'[sid].order_data = None]_vars

\* a turn said "có" to a finished order and was handled as a new turn
C10_Witness ==
    /\ last.op = "process_message"
    /\ last.u = U_yes
    /\ last.set = <<NONE>>
    /\ last.pipeline
    /\ last.steps = {}
    /\ last.sid \in DOMAIN sessions
    /\ sessions[last.sid].order_state = NONE

\* the session's expiry timestamp is earlier than the current time
Overdue(sid) == sid \in DOMAIN sessions /\ now > sessions[sid].expires_at

\* C11: get_session on a session whose expiry time has passed returns None
\* and removes the session; get_session_statistics counts as active exactly
\* the sessions held whose expiry time has not passed, and as order sessions
\* those of them whose order state is not NONE, whether or not its sweep
\* removed the others.
C11_ExpiredIsNeverServed ==
    [][/\ \A sid \in AllSessionIds :
              (last'.op = "get_session" /\ last'.sid = sid /\ Overdue(sid))
              => last'.status = "none" /\ sid \notin DOMAIN sessions'
       /\ last'.op = "get_session_statistics"
              => LET active == {sid \in DOMAIN sessions : ~Overdue(sid)}
                 IN  /\ last'.result.active_sessions = Cardinality(active)
                     /\ last'.result.order_sessions =
                            Cardinality({sid \in active :
                                sessions[sid].order_state # NONE})]_vars

\* the statistics were taken while an expired session in an order state
\* was still held, next to a live one, and counted the live one alone
C11_Witness ==
    /\ last.op = "get_session_statistics"
    /\ last.result.total_sessions = 2
    /\ last.result.active_sessions = 1
    /\ last.result.order_sessions = 0
    /\ \E sid \in DOMAIN sessions :
           /\ now > sessions[sid].expires_at
           /\ sessions[sid].order_state # NONE

\* the operations of the SessionManager that write a session
Mutating == {"set_order_state", "set_order_data", "clear_order_data"}

\* C12: an operation of the SessionManager addressed to a session whose
\* expiry time has passed reports failure, as for a session that does not
\* exist, and changes neither the session's order state nor its draft.
C12_ExpiredIsNeverWritten ==
    [][\A sid \in AllSessionIds :
          (/\ last'.op \in Mutating \cup {"get_session"}
           /\ last'.sid = sid
           /\ Overdue(sid))
          => /\ last'.status \in {"false", "none"}
             /\ sid \in DOMAIN sessions'
                    => sessions'[sid] = sessions[sid]]_vars

\* the session after the turns u1, u2 run one after the other from S
Serial(S, sid, u1, u2) ==
    LET other == [kind |-> "other", book |-> "-"]
        o1 == process_message(S, stock, orders, sid, u1, now, other, "none")
        o2 == process_message(o1.S, stock, orders, sid, u2, now, other,
                              "none")
    IN  o2.S[sid]

\* C13: when two callers have each run a turn on the session, whatever the
\* interleaving, the session's order state and draft are those of one of
\* the two serial orders of the turns, and the draft's total_price is its
\* price times its quantity.
C13_TurnsSerialize ==
    \A sid \in DOMAIN sessions :
        (\A t \in Threads : th[t].pc = "done")
        => LET first == CHOOSE t \in Threads : th[t].seq = 1
               second == CHOOSE t \in Threads : th[t].seq = 2
               S0 == th[first].S0
               d == sessions[sid].order_data
           IN  /\ sessions[sid] \in
                      {Serial(S0, sid, th[first].u, th[second].u),
                       Serial(S0, sid, th[second].u, th[first].u)}
               /\ d.total_price = d.price * d.quantity

\* the quantity of book b sold by the calls that returned success
RECURSIVE SoldBy(_, _)
SoldBy(T, b) ==
    IF T = {} THEN 0
    ELSE LET t == CHOOSE x \in T : TRUE
             sold == IF /\ th[t].pc = "done" /\ th[t].ok
                        /\ th[t].order.book_id = b
                     THEN th[t].order.quantity ELSE 0
         IN  sold + SoldBy(T \ {t}, b)

\* C14: under any interleaving of create_order calls the stock of a book
\* is never negative and equals its initial stock minus the quantities of
\* the calls that returned success, the orders table holds one row for each
\* of those calls, and a call that fails leaves stock and orders as they
\* were.
C14_StockIsAccounted ==
    /\ \A b \in Books :
           /\ stock[b] >= 0
           /\ stock[b] = StockAtStart[b] - SoldBy(Threads, b)
    /\ orders = Cardinality({t \in Threads : th[t].pc = "done" /\ th[t].ok})

\* C15: process_message given the id of a session that is not held or has
\* expired returns the invalid-session error; it leaves no session under
\* that id, adds nothing to a history, runs neither the pipeline nor a step
\* of the order flow, and leaves every other session and the store as they
\* were.  A call given no id makes a session that starts in NONE without a
\* draft: the only order state it may be assigned is WAITING_QUANTITY.
C15_InvalidSession ==
    [][\A sid \in SessionIds :
          (last'.op = "process_message" /\ last'.sid = sid)
          => /\ (last'.arg.session_id = sid /\ ~Live(sessions, sid, now))
                => /\ last'.intent = "invalid_session"
                   /\ sid \notin DOMAIN sessions'
                   /\ last'.history = <<>>
                   /\ ~last'.pipeline
                   /\ last'.steps = {}
                   /\ last'.set = <<>>
                   /\ stock' = stock /\ orders' = orders
                   /\ \A x \in DOMAIN sessions \ {sid} :
                          x \in DOMAIN sessions' /\ sessions'[x] = sessions[x]
             /\ last'.arg.session_id = "-"
                => /\ sid \notin DOMAIN sessions
                   /\ sid \in DOMAIN sessions'
                   /\ last'.set \in {<<>>, <<WAITING_QUANTITY>>}
                   /\ last'.set = <<>> => Idle(sessions', sid, now)]_vars

\* after an order was placed and the clock advanced, a turn addressed an id
\* under which no live session is held and was refused
C15_Witness ==
    /\ last.op = "process_message"
    /\ last.arg.session_id = last.sid
    /\ last.intent = "invalid_session"
    /\ last.sid \notin DOMAIN sessions
    /\ now > 0
    /\ orders = 1

\* C16: every process_message call returns a result, the error result of an
\* invalid session or a response with an intent, and no exception leaves it;
\* an exception out of a handler is answered with the apology.
C16_NothingEscapes ==
    [][last'.op = "process_message"
          => /\ ~last'.escaped
             /\ last'.intent # "-"
             /\ last'.raised => last'.intent = "error"]_vars

\* an exception out of a handler was caught and answered
C16_Witness ==
    /\ last.op = "process_message"
    /\ last.raised
    /\ last.intent = "error"
    /\ last.history = <<"user">>
    /\ ~last.escaped

\* classify_intent was applied
Classified == fx.fn = "classify_intent" /\ fx.done
\* intent a is evaluated before intent b: it has the higher priority, or
\* the same and comes first in intent_patterns
EvaluatedBefore(a, b) ==
    \/ intent_priority[a] > intent_priority[b]
    \/ /\ intent_priority[a] = intent_priority[b]
       /\ \E i, j \in DOMAIN intent_patterns :
              i < j /\ intent_patterns[i] = a /\ intent_patterns[j] = b

\* C17: of a match of intent a and a match of another intent b with equal
\* raw confidence, where a has the higher priority, the match of b is not
\* the one selected; and of two matches with equal adjusted confidence,
\* where a is evaluated before b, the match of b is not the one selected
\* (b is the result only through a match of greater adjusted confidence).
C17_PriorityBreaksTies ==
    Classified
    => \A a, b \in DOMAIN fx.in :
          \A i \in DOMAIN fx.in[a], j \in DOMAIN fx.in[b] :
              LET adj_a == fx.in[a][i] + intent_priority[a]
                  adj_b == fx.in[b][j] + intent_priority[b]
              IN  (/\ a # b
                   /\ \/ /\ fx.in[a][i] = fx.in[b][j]
                         /\ intent_priority[a] > intent_priority[b]
                      \/ adj_a = adj_b /\ EvaluatedBefore(a, b))
                  => \/ fx.out.intent # b
                     \/ fx.out.confidence > adj_b

\* ORDER at 0.50 and QUERY at 0.52 tie at 0.60 after the bonus, GREETING and
\* GOODBYE tie at 0.50, and ORDER, evaluated first, is the result
C17_Witness ==
    /\ Classified
    /\ fx.in["order"] = <<50>>
    /\ fx.in["query"] = <<52>>
    /\ fx.in["greeting"] = <<50>>
    /\ fx.in["goodbye"] = <<50>>
    /\ fx.out = [intent |-> "order", confidence |-> 60]

\* the tag that the four counts give, in the order of resolution
Resolved(excited, frustrated, positive, negative) ==
    IF excited > 0 /\ excited >= positive THEN EXCITED
    ELSE IF frustrated > 0 /\ frustrated >= negative THEN FRUSTRATED
    ELSE IF positive > negative THEN POSITIVE
    ELSE IF negative > positive THEN NEGATIVE
    ELSE NEUTRAL
Analyzed == fx.fn = "analyze_sentiment" /\ fx.done
\* the words of a text in another order
Permuted(text, p) ==
    LET ws == split(text) IN Join([i \in 1..Len(ws) |-> ws[p[i]]])

\* C18: the tag of analyze_sentiment is the one that the four counts of
\* keywords among the words of the text give, resolved in the order EXCITED
\* (excited > 0 and excited >= positive), FRUSTRATED (frustrated > 0 and
\* frustrated >= negative), POSITIVE (positive > negative), NEGATIVE
\* (negative > positive), NEUTRAL; the words of the text in any other order
\* give the same tag, and the empty text gives NEUTRAL.
C18_SentimentByCounts ==
    Analyzed =>
        /\ fx.out = Resolved(intersection_count(fx.in, EXCITED_KEYWORDS),
                             intersection_count(fx.in, FRUSTRATED_KEYWORDS),
                             intersection_count(fx.in, POSITIVE_KEYWORDS),
                             intersection_count(fx.in, NEGATIVE_KEYWORDS))
        /\ \A p \in Permutations(1..Len(split(fx.in))) :
               analyze_sentiment(Permuted(fx.in, p)) = fx.out
        /\ fx.in = <<>> => fx.out = NEUTRAL
\* a text of several words with as many excited as positive keywords has
\* been tagged EXCITED
C18_Witness ==
    /\ Analyzed
    /\ Len(split(fx.in)) > 1
    /\ intersection_count(fx.in, EXCITED_KEYWORDS) = 1
    /\ intersection_count(fx.in, POSITIVE_KEYWORDS) = 1
    /\ fx.out = EXCITED

PriceParsed == fx.fn = "_extract_price_parameters" /\ fx.done
PricePatterns ==
    <<Pattern1, Pattern2, Pattern3, Pattern4, Pattern5, Pattern6>>
\* the patterns that match a text somewhere
Matching(text) == {n \in 1..6 : search(PricePatterns[n], text).ok}
\* the range that a pattern alone gives for a text that it matches
RangeOf(n, text) ==
    LET g == search(PricePatterns[n], text).groups
        below == Lower(g[1]) \in {K_duoi, K_thap_hon}
    IN  IF n \in {1, 2} THEN <<{ToInt(g[1])}, {ToInt(g[2])}>>
        ELSE IF below THEN <<{}, {ToInt(g[2])}>>
        ELSE <<{ToInt(g[2])}, {}>>

\* C19: the price parameters of a text are the range of the first of the six
\* patterns, in their order, that matches it, whatever later patterns match;
\* "gia tu A den B" gives (A, B), "duoi N" alone gives (None, N), "tren N"
\* alone gives (N, None); a text that no pattern matches gives no
\* price_range.
C19_FirstPatternWins ==
    PriceParsed =>
        LET hits == Matching(fx.in)
        IN  /\ hits = {} => fx.out = {}
            /\ hits # {} =>
                   LET n == CHOOSE x \in hits : \A y \in hits : x <= y
                   IN  fx.out = {<<"price_range", RangeOf(n, fx.in)>>}
            /\ fx.in = T_range =>
                   fx.out = {<<"price_range", <<{50000}, {150000}>>>>}
            /\ fx.in = T_below => fx.out = {<<"price_range", <<{}, {100000}>>>>}
            /\ fx.in = T_above => fx.out = {<<"price_range", <<{200000}, {}>>>>}
\* a text that both Pattern 5 and Pattern 6 match, the match of Pattern 6
\* coming first in the text, has been given the range of Pattern 5
C19_Witness ==
    /\ PriceParsed
    /\ Matching(fx.in) = {5, 6}
    /\ Contains(fx.in, K_duoi)
    /\ Find(fx.in, K_duoi, 1) < Find(fx.in, K_tren, 1)
    /\ fx.out = {<<"price_range", <<{7}, {}>>>>}

Normalized == fx.fn = "normalize_text" /\ fx.done

\* C20: normalize_text is idempotent: the normal form of a text is its own
\* normal form.
C20_NormalizeIdempotent == Normalized => normalize_text(fx.out) = fx.out
\* a text that ends with punctuation after a letter has been normalized to a
\* text that is not empty
C20_Witness ==
    /\ Normalized
    /\ Len(fx.in) > 1
    /\ fx.in[Len(fx.in)] \in Punctuation
    /\ IsWordChar(fx.in[Len(fx.in) - 1])
    /\ fx.out # <<>>
    /\ fx.out # fx.in

FuzzyExtracted == fx.fn \in Extractors /\ fx.done

\* C21: a fuzzy extractor that finds no exact or substring match gives the
\* choice of the best score if and only if that score is at least the
\* threshold of the call.
C21_ThresholdDecides ==
    FuzzyExtracted /\ fx.in.exact = {} =>
        LET best == extractOne(fx.in.scores)
        IN  IF fx.in.scores[best] >= fx.in.threshold
            THEN fx.out = {best}
            ELSE fx.out = {}

\* C22: a turn on a session whose order state is WAITING_QUANTITY,
\* WAITING_ADDRESS_PHONE or CONFIRMING_ORDER leaves the contexts of the
\* ContextManager as they were, whatever the utterance.
C22_FlowTurnKeepsContext ==
    [][\A sid \in SessionIds :
           TurnOn(sid) /\ sessions[sid].order_state \in FlowStates =>
               fx'.contexts = fx.contexts]_vars
\* a session that has a context with a turn in it has taken a turn of the
\* order flow
C22_Witness ==
    /\ fx.fn = "contexts"
    /\ last.op = "process_message"
    /\ last.intent \in {"order_quantity", "order_quantity_error",
                        "order_address_phone", "order_confirmation_error"}
    /\ last.sid \in DOMAIN fx.contexts
    /\ fx.contexts[last.sid].conversation_history # <<>>

\* C23: cleanup_expired_sessions called 300 seconds or more after the sweep
\* before it, however long after, removes every session whose expiry time
\* has passed and no other; called sooner it removes nothing.
C23_SweepRemovesOverdue ==
    [][last'.op = "cleanup_expired_sessions" =>
           IF now - last_cleanup >= cleanup_interval
           THEN sessions' = [x \in {y \in DOMAIN sessions : ~Overdue(y)} |->
                                sessions[x]]
           ELSE sessions' = sessions]_vars

Updated == fx.fn = "update_context"
\* the history entry of the n-th call
EntryOf(n) ==
    [user_input |-> fx.calls[n].original_text, intent |-> fx.calls[n].intent,
     sentiment |-> fx.calls[n].sentiment, timestamp |-> n]
HasSentiment(r) == r.sentiment # {}
\* the sentiment tags of the calls that came with one, in order
Tags ==
    LET with == SelectSeq(fx.calls, HasSentiment)
    IN  [i \in 1..Len(with) |-> CHOOSE s \in with[i].sentiment : TRUE]

\* C24: after n calls of update_context, m of them with a sentiment, the
\* conversation history is the entries of the last min(n, 10) calls in the
\* order of the calls, the sentiment history is the last min(m, 5)
\* sentiment tags in order, and last_intent is the intent of the last call.
C24_HistoriesAreBounded ==
    Updated =>
        LET n == Len(fx.calls)
            kept == Min(n, history_maxlen)
            m == Len(Tags)
            tags == Min(m, sentiment_maxlen)
        IN  /\ fx.context.conversation_history =
                   [i \in 1..kept |-> EntryOf(n - kept + i)]
            /\ fx.context.user_sentiment_history =
                   [i \in 1..tags |-> Tags[m - tags + i]]
            /\ n > 0 => fx.context.last_intent = {fx.calls[n].intent}
\* more than ten calls have been made, more than five of them with a
\* sentiment and one without
C24_Witness ==
    /\ Updated
    /\ Len(fx.calls) > history_maxlen
    /\ Len(Tags) > sentiment_maxlen
    /\ Len(Tags) < Len(fx.calls)

\* the turn of the step was processed: it found its session and no
\* exception stopped it
Processed ==
    /\ last'.op = "process_message"
    /\ last'.intent \notin {"invalid_session", "error"}
\* C25: the conversation history of a session never holds more than 50
\* messages, and holds the most recently added ones in the order in which
\* they were added; a turn that is processed adds two messages to it, the
\* user's and then the assistant's.
C25_HistoryIsBounded ==
    /\ [](\A sid \in SessionIds :
             LET h == fx.history[sid]
                 n == fx.added[sid]
             IN  /\ Len(h) = Min(n, history_limit)
                 /\ \A i \in 1..Len(h) : h[i].timestamp = n - Len(h) + i)
    /\ [][\A sid \in SessionIds :
              Processed /\ last'.sid = sid =>
                  LET h == fx'.history[sid]
                  IN  /\ fx'.added[sid] = fx.added[sid] + 2
                      /\ h[Len(h) - 1].role = "user"
                      /\ h[Len(h)].role = "assistant"]_vars
\* a processed turn has been added to a history that was full
C25_Witness ==
    /\ fx.fn = "history"
    /\ \E sid \in SessionIds :
           /\ fx.added[sid] > history_limit
           /\ last.op = "process_message"
           /\ last.sid = sid
           /\ last.intent \notin {"invalid_session", "error"}

Improved == fx.fn = "_improve_intent_with_context" /\ fx.done
\* the utterance holds a word of confirmation, affirmative or negative
Confirms(text) ==
    AnyTokenIn(AffirmativeTokens, text) \/ AnyTokenIn(NegativeTokens, text)

\* C26: the intent result comes back as it was when its confidence is at
\* least 0.7 or the context has no last intent.  Its intent changes only
\* when the confidence is below 0.7, the last intent is ORDER and the
\* utterance holds a word of confirmation, and then to ORDER with the
\* confidence 0.9.  With the last intent SEARCH_BY_CATEGORY and a topic,
\* only the category parameter, set to the topic, and the confidence,
\* raised by 0.2 and at most 1.0, change.
C26_ContextDisambiguates ==
    Improved =>
        LET r == fx.in.intent_result
            c == fx.in.context
        IN  /\ r.confidence >= 70 \/ c.last_intent = {} => fx.out = r
            /\ fx.out.intent # r.intent =>
                   /\ r.confidence < 70
                   /\ c.last_intent = {ORDER}
                   /\ Confirms(r.original_text)
                   /\ fx.out.intent = ORDER
                   /\ fx.out.confidence = 90
            /\ r.confidence < 70 /\ c.last_intent = {SEARCH_BY_CATEGORY}
                   /\ c.current_topic # {} =>
                   /\ fx.out =
                          [r EXCEPT !.parameters.category = c.current_topic,
                                    !.confidence = fx.out.confidence]
                   /\ fx.out.confidence = r.confidence + 20
                   /\ fx.out.confidence <= 100
\* an uncertain result after an ORDER turn, with a word of confirmation in
\* the utterance, has been made an ORDER
C26_Witness ==
    /\ Improved
    /\ fx.in.intent_result.confidence = 69
    /\ fx.in.context.last_intent = {ORDER}
    /\ fx.in.intent_result.intent # ORDER
    /\ fx.out.intent = ORDER
    /\ fx.out.confidence = 90

Suggested == fx.fn = "get_smart_suggestions" /\ fx.done
\* the values of a sequence in the order of their first occurrence
RECURSIVE FirstSeen(_)
FirstSeen(s) ==
    IF s = <<>> THEN <<>>
    ELSE LET before == FirstSeen(SubSeq(s, 1, Len(s) - 1))
             x == s[Len(s)]
         IN  IF \E i \in 1..Len(before) : before[i] = x THEN before
             ELSE Append(before, x)
SearchesCategory(r) == r.intent = SEARCH_BY_CATEGORY
SearchesAuthor(r) == r.intent = SEARCH_BY_AUTHOR
\* the categories and the authors searched for so far, in order
Categories ==
    LET s == SelectSeq(fx.calls, SearchesCategory)
    IN  [i \in 1..Len(s) |-> CHOOSE c \in s[i].parameters.category : TRUE]
Authors ==
    LET s == SelectSeq(fx.calls, SearchesAuthor)
    IN  [i \in 1..Len(s) |-> CHOOSE a \in s[i].parameters.author : TRUE]
NoTwice(s) == \A i, j \in 1..Len(s) : s[i] = s[j] => i = j

\* C27: the suggestions are at most 5, and are the first 5 of: the first two
\* preferred categories, the first two preferred authors, the fixed
\* suggestions of the current intent, the fixed suggestions of the last
\* sentiment, in this order; the preferred categories and authors are those
\* searched for, in the order of their first search, each once.
C27_SuggestionsAreComposed ==
    /\ fx.fn = "get_smart_suggestions" =>
           /\ fx.context.preferred_categories = FirstSeen(Categories)
           /\ fx.context.preferred_authors = FirstSeen(Authors)
           /\ NoTwice(fx.context.preferred_categories)
           /\ NoTwice(fx.context.preferred_authors)
    /\ Suggested =>
           LET cs == fx.context.preferred_categories
               as == fx.context.preferred_authors
               all == [i \in 1..Min(2, Len(cs)) |-> Suggest("Sach ve", cs[i])]
                      \o [i \in 1..Min(2, Len(as)) |->
                             Suggest("Sach cua", as[i])]
                      \o ForIntent(fx.intent)
                      \o ForSentiment(fx.context.user_sentiment_history)
           IN  /\ Len(fx.out) <= 5
               /\ fx.out = [i \in 1..Min(5, Len(all)) |-> all[i]]
\* suggestions were asked for with six to give: two categories, two authors
\* and the two of the intent
C27_Witness ==
    /\ Suggested
    /\ Len(fx.context.preferred_categories) = 2
    /\ Len(fx.context.preferred_authors) = 2
    /\ fx.intent = QUERY
    /\ Len(fx.out) = 5

\* C28: the confidence that classify_intent gives is the raw confidence of
\* a match of the intent it gives, without the bonus of the priority, and
\* lies between 0 and 1; with no match it gives UNKNOWN with confidence 0.
C28_ConfidenceIsRaw ==
    Classified =>
        IF \A a \in DOMAIN fx.in : fx.in[a] = <<>>
        THEN fx.out = [intent |-> UNKNOWN, confidence |-> 0]
        ELSE /\ fx.out.intent \in DOMAIN fx.in
             /\ \E i \in DOMAIN fx.in[fx.out.intent] :
                    fx.out.confidence = fx.in[fx.out.intent][i]
             /\ fx.out.confidence \in 0..100

\* the steps that continue an order flow
FlowSteps ==
    {"process_quantity", "process_address_phone", "confirm_order",
     "complete_order"}
\* C29: the expiry time of a session is the time of its creation plus the
\* timeout, and no step changes it while the session is held; once it has
\* passed, a turn on the session gives the invalid-session error and the
\* session is gone, and no step of the order flow takes a session that was
\* in the flow to another order state.
C29_ExpiryIsFixed ==
    [][\A sid \in SessionIds :
           /\ sid \notin DOMAIN sessions /\ sid \in DOMAIN sessions' =>
                  sessions'[sid].expires_at = now + session_timeout
           /\ sid \in DOMAIN sessions /\ sid \in DOMAIN sessions' =>
                  sessions'[sid].expires_at = sessions[sid].expires_at
           /\ Overdue(sid) /\ last'.sid = sid =>
                  /\ (last'.op = "process_message"
                          /\ last'.arg.session_id = sid) =>
                         /\ last'.intent = "invalid_session"
                         /\ sid \notin DOMAIN sessions'
                         /\ stock' = stock
                         /\ orders' = orders
                  /\ (last'.op \in FlowSteps
                          /\ sessions[sid].order_state \in FlowStates) =>
                         \/ sid \notin DOMAIN sessions'
                         \/ sessions'[sid].order_state =
                                sessions[sid].order_state]_vars

\* the step is a turn on a live session in CONFIRMING_ORDER whose utterance
\* holds an affirmative token and a negative token
ConfirmsAndRefuses(sid) ==
    /\ TurnOn(sid)
    /\ last'.arg.session_id = sid
    /\ sessions[sid].order_state = CONFIRMING_ORDER
    /\ SaysYes[last'.u]
    /\ SaysNo[last'.u]
\* C30: a turn in CONFIRMING_ORDER whose utterance holds an affirmative
\* token and a negative token confirms: it runs confirm_order and
\* complete_order, hands the order to the store, and leaves the session in
\* ORDER_COMPLETED when the store took the order and in ORDER_CANCELLED when
\* it did not, never in NONE with the reply of a cancellation.
C30_AffirmativeFirst ==
    [][\A sid \in SessionIds :
           ConfirmsAndRefuses(sid)
           => /\ last'.steps = {"confirm_order", "complete_order"}
              /\ last'.create \in {"success", "false", "raise"}
              /\ last'.intent \in {"order_completed", "order_failed"}
              /\ last'.intent # "order_cancelled"
              /\ sid \in DOMAIN sessions'
              /\ sessions'[sid].order_state =
                     IF last'.create = "success"
                     THEN ORDER_COMPLETED ELSE ORDER_CANCELLED
              /\ (last'.create = "success") = (orders' = orders + 1)]_vars

\* a turn said "Không có" to a draft awaiting confirmation, and the store
\* took the order
C30_Witness ==
    /\ last.op = "process_message"
    /\ last.u = U_khong_co
    /\ last.intent = "order_completed"
    /\ last.create = "success"
    /\ last.sid \in DOMAIN sessions
    /\ sessions[last.sid].order_state = ORDER_COMPLETED
    /\ orders = 1
====
